---- MODULE Spec2Model ----
(***************************************************************************)
(* CV_Analyzer: the three instrumented string matchers of main.py, the     *)
(* whole-word boundary rule they share, and the weighted scoring and batch *)
(* ranking of app.py.                                                      *)
(*                                                                         *)
(* A character is its code point (ord(c) is the character itself), a text  *)
(* or a pattern is a sequence of characters.  Python indices are 0-based;  *)
(* the operators keep the source's 0-based cursors and add 1 where a       *)
(* sequence is indexed.                                                    *)
(***************************************************************************)
EXTENDS Integers, Sequences, FiniteSets, TLC

VARIABLES
    \* --- inputs and results of one run of the matchers (SpecMatch) ---
    text,          \* the text handed to the matchers
    pattern,       \* the pattern handed to the matchers
    results,       \* algorithm name -> [found_count, comparisons], or NoResult
    span,          \* the last span given to _is_word_boundary, with its answer
    patterns,      \* the list of patterns handed to run_all_algorithms
    mpc,           \* which of the specifications below runs
    \* --- CVAnalyzerApp (app.py) ---
    selected_job,            \* the job title chosen in the combobox, "" when none
    mandatory_keywords,
    preferred_keywords,
    all_keywords_list,
    cv_filepath,             \* the path of the CV loaded, empty when none is
    cv_text_content,
    penalty_var,
    case_sensitive_var,
    performance_data,
    score_label,             \* the score shown, NoScore before the first analysis
    frame,                   \* run_analysis' locals at the end of its last pass
    status_label,
    analyze_button,
    batch_button,
    batch_thread,            \* "none", "alive" or "dead"
    batch_queue,
    batch_results_data,
    batch_performance_data,
    batch_summary_cvs,
    batch_table,             \* the rows of the Batch Results table, top first
    cvs_dir,                 \* the folder data/cvs: whether it exists, and file name ->
                             \* what the extraction of that file returns
    report_file,             \* what stands at data/cv_batch_report.json
    messagebox,              \* the modal boxes open on the main thread, the top one last
    worker,                  \* the worker thread's arguments, locals and position
    active_workers,          \* the number of worker threads that have not returned
    job_descriptions,        \* the folder data/job_descriptions: job title -> what
                             \* stands at the path of its file
    export_button,
    heading_reverse,         \* column of the batch table -> the order the next click
                             \* on its heading sorts in
    single_report,           \* the file export_single_report has written
    inputs_left              \* the number of inputs of the user yet to come

matchVars == <<text, pattern, patterns, results, span, mpc>>
appVars == <<selected_job, mandatory_keywords, preferred_keywords, all_keywords_list,
             cv_filepath, cv_text_content, penalty_var, case_sensitive_var,
             performance_data, score_label, frame, status_label, analyze_button,
             batch_button, batch_thread, batch_queue, batch_results_data,
             batch_performance_data, batch_summary_cvs, batch_table, cvs_dir, report_file,
             messagebox, worker, active_workers, job_descriptions, export_button,
             heading_reverse, single_report, inputs_left>>
vars == <<matchVars, appVars>>

\* ------------------------------------------------------------ bounds
MaxTextLen == 4
MaxPatLen == 3

\* 'a', 'b' and ' ': two alphanumeric characters and one that is not.
Alphabet == {97, 98, 32}

RECURSIVE SeqsUpTo(_, _)
SeqsUpTo(S, n) ==
    IF n = 0 THEN {<<>>}
    ELSE LET shorter == SeqsUpTo(S, n - 1)
         IN  shorter \cup {Append(s, c) : s \in {t \in shorter : Len(t) = n - 1}, c \in S}

Texts == SeqsUpTo(Alphabet, MaxTextLen)
Patterns == SeqsUpTo(Alphabet, MaxPatLen)

\* Texts with characters beyond ASCII: "\u00e9a" and "a\u00b2", where a letter
\* and a digit of Unicode stand against the a, and "\u20aca a", where a symbol
\* does.
WideTexts == {<<233, 97>>, <<97, 178>>, <<8364, 97, 32, 97>>}
WidePairs == {<<t, <<97>>>> : t \in WideTexts}
BoundaryTexts == Texts \cup WideTexts
MatchedPairs == (Texts \X Patterns) \cup WidePairs

\* ------------------------------------------------------------ characters
\* The character tables of the interpreter (Unicode 14.0.0, CPython 3.11),
\* from code point 128 upward; the ASCII range is written out in the
\* operators.  A row <<lo, hi>> is a range of code points, both ends included.
in_ranges(c, rows) == \E k \in DOMAIN rows : rows[k][1] <= c /\ c <= rows[k][2]

\* The code points c >= 128 with chr(c).isalnum().
AlnumRows ==
    << <<170, 170>>, <<178, 179>>, <<181, 181>>, <<185, 186>>, <<188, 190>>, <<192, 214>>,
       <<216, 246>>, <<248, 705>>, <<710, 721>>, <<736, 740>>, <<748, 748>>, <<750, 750>>,
       <<880, 884>>, <<886, 887>>, <<890, 893>>, <<895, 895>>, <<902, 902>>, <<904, 906>>,
       <<908, 908>>, <<910, 929>>, <<931, 1013>>, <<1015, 1153>>, <<1162, 1327>>, <<1329, 1366>>,
       <<1369, 1369>>, <<1376, 1416>>, <<1488, 1514>>, <<1519, 1522>>, <<1568, 1610>>, <<1632, 1641>>,
       <<1646, 1647>>, <<1649, 1747>>, <<1749, 1749>>, <<1765, 1766>>, <<1774, 1788>>, <<1791, 1791>>,
       <<1808, 1808>>, <<1810, 1839>>, <<1869, 1957>>, <<1969, 1969>>, <<1984, 2026>>, <<2036, 2037>>,
       <<2042, 2042>>, <<2048, 2069>>, <<2074, 2074>>, <<2084, 2084>>, <<2088, 2088>>, <<2112, 2136>>,
       <<2144, 2154>>, <<2160, 2183>>, <<2185, 2190>>, <<2208, 2249>>, <<2308, 2361>>, <<2365, 2365>>,
       <<2384, 2384>>, <<2392, 2401>>, <<2406, 2415>>, <<2417, 2432>>, <<2437, 2444>>, <<2447, 2448>>,
       <<2451, 2472>>, <<2474, 2480>>, <<2482, 2482>>, <<2486, 2489>>, <<2493, 2493>>, <<2510, 2510>>,
       <<2524, 2525>>, <<2527, 2529>>, <<2534, 2545>>, <<2548, 2553>>, <<2556, 2556>>, <<2565, 2570>>,
       <<2575, 2576>>, <<2579, 2600>>, <<2602, 2608>>, <<2610, 2611>>, <<2613, 2614>>, <<2616, 2617>>,
       <<2649, 2652>>, <<2654, 2654>>, <<2662, 2671>>, <<2674, 2676>>, <<2693, 2701>>, <<2703, 2705>>,
       <<2707, 2728>>, <<2730, 2736>>, <<2738, 2739>>, <<2741, 2745>>, <<2749, 2749>>, <<2768, 2768>>,
       <<2784, 2785>>, <<2790, 2799>>, <<2809, 2809>>, <<2821, 2828>>, <<2831, 2832>>, <<2835, 2856>>,
       <<2858, 2864>>, <<2866, 2867>>, <<2869, 2873>>, <<2877, 2877>>, <<2908, 2909>>, <<2911, 2913>>,
       <<2918, 2927>>, <<2929, 2935>>, <<2947, 2947>>, <<2949, 2954>>, <<2958, 2960>>, <<2962, 2965>>,
       <<2969, 2970>>, <<2972, 2972>>, <<2974, 2975>>, <<2979, 2980>>, <<2984, 2986>>, <<2990, 3001>>,
       <<3024, 3024>>, <<3046, 3058>>, <<3077, 3084>>, <<3086, 3088>>, <<3090, 3112>>, <<3114, 3129>>,
       <<3133, 3133>>, <<3160, 3162>>, <<3165, 3165>>, <<3168, 3169>>, <<3174, 3183>>, <<3192, 3198>>,
       <<3200, 3200>>, <<3205, 3212>>, <<3214, 3216>>, <<3218, 3240>>, <<3242, 3251>>, <<3253, 3257>>,
       <<3261, 3261>>, <<3293, 3294>>, <<3296, 3297>>, <<3302, 3311>>, <<3313, 3314>>, <<3332, 3340>>,
       <<3342, 3344>>, <<3346, 3386>>, <<3389, 3389>>, <<3406, 3406>>, <<3412, 3414>>, <<3416, 3425>>,
       <<3430, 3448>>, <<3450, 3455>>, <<3461, 3478>>, <<3482, 3505>>, <<3507, 3515>>, <<3517, 3517>>,
       <<3520, 3526>>, <<3558, 3567>>, <<3585, 3632>>, <<3634, 3635>>, <<3648, 3654>>, <<3664, 3673>>,
       <<3713, 3714>>, <<3716, 3716>>, <<3718, 3722>>, <<3724, 3747>>, <<3749, 3749>>, <<3751, 3760>>,
       <<3762, 3763>>, <<3773, 3773>>, <<3776, 3780>>, <<3782, 3782>>, <<3792, 3801>>, <<3804, 3807>>,
       <<3840, 3840>>, <<3872, 3891>>, <<3904, 3911>>, <<3913, 3948>>, <<3976, 3980>>, <<4096, 4138>>,
       <<4159, 4169>>, <<4176, 4181>>, <<4186, 4189>>, <<4193, 4193>>, <<4197, 4198>>, <<4206, 4208>>,
       <<4213, 4225>>, <<4238, 4238>>, <<4240, 4249>>, <<4256, 4293>>, <<4295, 4295>>, <<4301, 4301>>,
       <<4304, 4346>>, <<4348, 4680>>, <<4682, 4685>>, <<4688, 4694>>, <<4696, 4696>>, <<4698, 4701>>,
       <<4704, 4744>>, <<4746, 4749>>, <<4752, 4784>>, <<4786, 4789>>, <<4792, 4798>>, <<4800, 4800>>,
       <<4802, 4805>>, <<4808, 4822>>, <<4824, 4880>>, <<4882, 4885>>, <<4888, 4954>>, <<4969, 4988>>,
       <<4992, 5007>>, <<5024, 5109>>, <<5112, 5117>>, <<5121, 5740>>, <<5743, 5759>>, <<5761, 5786>>,
       <<5792, 5866>>, <<5870, 5880>>, <<5888, 5905>>, <<5919, 5937>>, <<5952, 5969>>, <<5984, 5996>>,
       <<5998, 6000>>, <<6016, 6067>>, <<6103, 6103>>, <<6108, 6108>>, <<6112, 6121>>, <<6128, 6137>>,
       <<6160, 6169>>, <<6176, 6264>>, <<6272, 6276>>, <<6279, 6312>>, <<6314, 6314>>, <<6320, 6389>>,
       <<6400, 6430>>, <<6470, 6509>>, <<6512, 6516>>, <<6528, 6571>>, <<6576, 6601>>, <<6608, 6618>>,
       <<6656, 6678>>, <<6688, 6740>>, <<6784, 6793>>, <<6800, 6809>>, <<6823, 6823>>, <<6917, 6963>>,
       <<6981, 6988>>, <<6992, 7001>>, <<7043, 7072>>, <<7086, 7141>>, <<7168, 7203>>, <<7232, 7241>>,
       <<7245, 7293>>, <<7296, 7304>>, <<7312, 7354>>, <<7357, 7359>>, <<7401, 7404>>, <<7406, 7411>>,
       <<7413, 7414>>, <<7418, 7418>>, <<7424, 7615>>, <<7680, 7957>>, <<7960, 7965>>, <<7968, 8005>>,
       <<8008, 8013>>, <<8016, 8023>>, <<8025, 8025>>, <<8027, 8027>>, <<8029, 8029>>, <<8031, 8061>>,
       <<8064, 8116>>, <<8118, 8124>>, <<8126, 8126>>, <<8130, 8132>>, <<8134, 8140>>, <<8144, 8147>>,
       <<8150, 8155>>, <<8160, 8172>>, <<8178, 8180>>, <<8182, 8188>>, <<8304, 8305>>, <<8308, 8313>>,
       <<8319, 8329>>, <<8336, 8348>>, <<8450, 8450>>, <<8455, 8455>>, <<8458, 8467>>, <<8469, 8469>>,
       <<8473, 8477>>, <<8484, 8484>>, <<8486, 8486>>, <<8488, 8488>>, <<8490, 8493>>, <<8495, 8505>>,
       <<8508, 8511>>, <<8517, 8521>>, <<8526, 8526>>, <<8528, 8585>>, <<9312, 9371>>, <<9450, 9471>>,
       <<10102, 10131>>, <<11264, 11492>>, <<11499, 11502>>, <<11506, 11507>>, <<11517, 11517>>, <<11520, 11557>>,
       <<11559, 11559>>, <<11565, 11565>>, <<11568, 11623>>, <<11631, 11631>>, <<11648, 11670>>, <<11680, 11686>>,
       <<11688, 11694>>, <<11696, 11702>>, <<11704, 11710>>, <<11712, 11718>>, <<11720, 11726>>, <<11728, 11734>>,
       <<11736, 11742>>, <<11823, 11823>>, <<12293, 12295>>, <<12321, 12329>>, <<12337, 12341>>, <<12344, 12348>>,
       <<12353, 12438>>, <<12445, 12447>>, <<12449, 12538>>, <<12540, 12543>>, <<12549, 12591>>, <<12593, 12686>>,
       <<12690, 12693>>, <<12704, 12735>>, <<12784, 12799>>, <<12832, 12841>>, <<12872, 12879>>, <<12881, 12895>>,
       <<12928, 12937>>, <<12977, 12991>>, <<13312, 19903>>, <<19968, 42124>>, <<42192, 42237>>, <<42240, 42508>>,
       <<42512, 42539>>, <<42560, 42606>>, <<42623, 42653>>, <<42656, 42735>>, <<42775, 42783>>, <<42786, 42888>>,
       <<42891, 42954>>, <<42960, 42961>>, <<42963, 42963>>, <<42965, 42969>>, <<42994, 43009>>, <<43011, 43013>>,
       <<43015, 43018>>, <<43020, 43042>>, <<43056, 43061>>, <<43072, 43123>>, <<43138, 43187>>, <<43216, 43225>>,
       <<43250, 43255>>, <<43259, 43259>>, <<43261, 43262>>, <<43264, 43301>>, <<43312, 43334>>, <<43360, 43388>>,
       <<43396, 43442>>, <<43471, 43481>>, <<43488, 43492>>, <<43494, 43518>>, <<43520, 43560>>, <<43584, 43586>>,
       <<43588, 43595>>, <<43600, 43609>>, <<43616, 43638>>, <<43642, 43642>>, <<43646, 43695>>, <<43697, 43697>>,
       <<43701, 43702>>, <<43705, 43709>>, <<43712, 43712>>, <<43714, 43714>>, <<43739, 43741>>, <<43744, 43754>>,
       <<43762, 43764>>, <<43777, 43782>>, <<43785, 43790>>, <<43793, 43798>>, <<43808, 43814>>, <<43816, 43822>>,
       <<43824, 43866>>, <<43868, 43881>>, <<43888, 44002>>, <<44016, 44025>>, <<44032, 55203>>, <<55216, 55238>>,
       <<55243, 55291>>, <<63744, 64109>>, <<64112, 64217>>, <<64256, 64262>>, <<64275, 64279>>, <<64285, 64285>>,
       <<64287, 64296>>, <<64298, 64310>>, <<64312, 64316>>, <<64318, 64318>>, <<64320, 64321>>, <<64323, 64324>>,
       <<64326, 64433>>, <<64467, 64829>>, <<64848, 64911>>, <<64914, 64967>>, <<65008, 65019>>, <<65136, 65140>>,
       <<65142, 65276>>, <<65296, 65305>>, <<65313, 65338>>, <<65345, 65370>>, <<65382, 65470>>, <<65474, 65479>>,
       <<65482, 65487>>, <<65490, 65495>>, <<65498, 65500>>, <<65536, 65547>>, <<65549, 65574>>, <<65576, 65594>>,
       <<65596, 65597>>, <<65599, 65613>>, <<65616, 65629>>, <<65664, 65786>>, <<65799, 65843>>, <<65856, 65912>>,
       <<65930, 65931>>, <<66176, 66204>>, <<66208, 66256>>, <<66273, 66299>>, <<66304, 66339>>, <<66349, 66378>>,
       <<66384, 66421>>, <<66432, 66461>>, <<66464, 66499>>, <<66504, 66511>>, <<66513, 66517>>, <<66560, 66717>>,
       <<66720, 66729>>, <<66736, 66771>>, <<66776, 66811>>, <<66816, 66855>>, <<66864, 66915>>, <<66928, 66938>>,
       <<66940, 66954>>, <<66956, 66962>>, <<66964, 66965>>, <<66967, 66977>>, <<66979, 66993>>, <<66995, 67001>>,
       <<67003, 67004>>, <<67072, 67382>>, <<67392, 67413>>, <<67424, 67431>>, <<67456, 67461>>, <<67463, 67504>>,
       <<67506, 67514>>, <<67584, 67589>>, <<67592, 67592>>, <<67594, 67637>>, <<67639, 67640>>, <<67644, 67644>>,
       <<67647, 67669>>, <<67672, 67702>>, <<67705, 67742>>, <<67751, 67759>>, <<67808, 67826>>, <<67828, 67829>>,
       <<67835, 67867>>, <<67872, 67897>>, <<67968, 68023>>, <<68028, 68047>>, <<68050, 68096>>, <<68112, 68115>>,
       <<68117, 68119>>, <<68121, 68149>>, <<68160, 68168>>, <<68192, 68222>>, <<68224, 68255>>, <<68288, 68295>>,
       <<68297, 68324>>, <<68331, 68335>>, <<68352, 68405>>, <<68416, 68437>>, <<68440, 68466>>, <<68472, 68497>>,
       <<68521, 68527>>, <<68608, 68680>>, <<68736, 68786>>, <<68800, 68850>>, <<68858, 68899>>, <<68912, 68921>>,
       <<69216, 69246>>, <<69248, 69289>>, <<69296, 69297>>, <<69376, 69415>>, <<69424, 69445>>, <<69457, 69460>>,
       <<69488, 69505>>, <<69552, 69579>>, <<69600, 69622>>, <<69635, 69687>>, <<69714, 69743>>, <<69745, 69746>>,
       <<69749, 69749>>, <<69763, 69807>>, <<69840, 69864>>, <<69872, 69881>>, <<69891, 69926>>, <<69942, 69951>>,
       <<69956, 69956>>, <<69959, 69959>>, <<69968, 70002>>, <<70006, 70006>>, <<70019, 70066>>, <<70081, 70084>>,
       <<70096, 70106>>, <<70108, 70108>>, <<70113, 70132>>, <<70144, 70161>>, <<70163, 70187>>, <<70272, 70278>>,
       <<70280, 70280>>, <<70282, 70285>>, <<70287, 70301>>, <<70303, 70312>>, <<70320, 70366>>, <<70384, 70393>>,
       <<70405, 70412>>, <<70415, 70416>>, <<70419, 70440>>, <<70442, 70448>>, <<70450, 70451>>, <<70453, 70457>>,
       <<70461, 70461>>, <<70480, 70480>>, <<70493, 70497>>, <<70656, 70708>>, <<70727, 70730>>, <<70736, 70745>>,
       <<70751, 70753>>, <<70784, 70831>>, <<70852, 70853>>, <<70855, 70855>>, <<70864, 70873>>, <<71040, 71086>>,
       <<71128, 71131>>, <<71168, 71215>>, <<71236, 71236>>, <<71248, 71257>>, <<71296, 71338>>, <<71352, 71352>>,
       <<71360, 71369>>, <<71424, 71450>>, <<71472, 71483>>, <<71488, 71494>>, <<71680, 71723>>, <<71840, 71922>>,
       <<71935, 71942>>, <<71945, 71945>>, <<71948, 71955>>, <<71957, 71958>>, <<71960, 71983>>, <<71999, 71999>>,
       <<72001, 72001>>, <<72016, 72025>>, <<72096, 72103>>, <<72106, 72144>>, <<72161, 72161>>, <<72163, 72163>>,
       <<72192, 72192>>, <<72203, 72242>>, <<72250, 72250>>, <<72272, 72272>>, <<72284, 72329>>, <<72349, 72349>>,
       <<72368, 72440>>, <<72704, 72712>>, <<72714, 72750>>, <<72768, 72768>>, <<72784, 72812>>, <<72818, 72847>>,
       <<72960, 72966>>, <<72968, 72969>>, <<72971, 73008>>, <<73030, 73030>>, <<73040, 73049>>, <<73056, 73061>>,
       <<73063, 73064>>, <<73066, 73097>>, <<73112, 73112>>, <<73120, 73129>>, <<73440, 73458>>, <<73648, 73648>>,
       <<73664, 73684>>, <<73728, 74649>>, <<74752, 74862>>, <<74880, 75075>>, <<77712, 77808>>, <<77824, 78894>>,
       <<82944, 83526>>, <<92160, 92728>>, <<92736, 92766>>, <<92768, 92777>>, <<92784, 92862>>, <<92864, 92873>>,
       <<92880, 92909>>, <<92928, 92975>>, <<92992, 92995>>, <<93008, 93017>>, <<93019, 93025>>, <<93027, 93047>>,
       <<93053, 93071>>, <<93760, 93846>>, <<93952, 94026>>, <<94032, 94032>>, <<94099, 94111>>, <<94176, 94177>>,
       <<94179, 94179>>, <<94208, 100343>>, <<100352, 101589>>, <<101632, 101640>>, <<110576, 110579>>, <<110581, 110587>>,
       <<110589, 110590>>, <<110592, 110882>>, <<110928, 110930>>, <<110948, 110951>>, <<110960, 111355>>, <<113664, 113770>>,
       <<113776, 113788>>, <<113792, 113800>>, <<113808, 113817>>, <<119520, 119539>>, <<119648, 119672>>, <<119808, 119892>>,
       <<119894, 119964>>, <<119966, 119967>>, <<119970, 119970>>, <<119973, 119974>>, <<119977, 119980>>, <<119982, 119993>>,
       <<119995, 119995>>, <<119997, 120003>>, <<120005, 120069>>, <<120071, 120074>>, <<120077, 120084>>, <<120086, 120092>>,
       <<120094, 120121>>, <<120123, 120126>>, <<120128, 120132>>, <<120134, 120134>>, <<120138, 120144>>, <<120146, 120485>>,
       <<120488, 120512>>, <<120514, 120538>>, <<120540, 120570>>, <<120572, 120596>>, <<120598, 120628>>, <<120630, 120654>>,
       <<120656, 120686>>, <<120688, 120712>>, <<120714, 120744>>, <<120746, 120770>>, <<120772, 120779>>, <<120782, 120831>>,
       <<122624, 122654>>, <<123136, 123180>>, <<123191, 123197>>, <<123200, 123209>>, <<123214, 123214>>, <<123536, 123565>>,
       <<123584, 123627>>, <<123632, 123641>>, <<124896, 124902>>, <<124904, 124907>>, <<124909, 124910>>, <<124912, 124926>>,
       <<124928, 125124>>, <<125127, 125135>>, <<125184, 125251>>, <<125259, 125259>>, <<125264, 125273>>, <<126065, 126123>>,
       <<126125, 126127>>, <<126129, 126132>>, <<126209, 126253>>, <<126255, 126269>>, <<126464, 126467>>, <<126469, 126495>>,
       <<126497, 126498>>, <<126500, 126500>>, <<126503, 126503>>, <<126505, 126514>>, <<126516, 126519>>, <<126521, 126521>>,
       <<126523, 126523>>, <<126530, 126530>>, <<126535, 126535>>, <<126537, 126537>>, <<126539, 126539>>, <<126541, 126543>>,
       <<126545, 126546>>, <<126548, 126548>>, <<126551, 126551>>, <<126553, 126553>>, <<126555, 126555>>, <<126557, 126557>>,
       <<126559, 126559>>, <<126561, 126562>>, <<126564, 126564>>, <<126567, 126570>>, <<126572, 126578>>, <<126580, 126583>>,
       <<126585, 126588>>, <<126590, 126590>>, <<126592, 126601>>, <<126603, 126619>>, <<126625, 126627>>, <<126629, 126633>>,
       <<126635, 126651>>, <<127232, 127244>>, <<130032, 130041>>, <<131072, 173791>>, <<173824, 177976>>, <<177984, 178205>>,
       <<178208, 183969>>, <<183984, 191456>>, <<194560, 195101>>, <<196608, 201546>> >>

\* str.lower() of one code point c >= 128 that it changes: a row
\* <<lo, hi, step, delta>> sends lo, lo + step, ..., hi to themselves + delta.
LowerRows ==
    << <<192, 214, 1, 32>>, <<216, 222, 1, 32>>, <<256, 302, 2, 1>>, <<306, 310, 2, 1>>,
       <<313, 327, 2, 1>>, <<330, 374, 2, 1>>, <<376, 376, 1, -121>>, <<377, 381, 2, 1>>,
       <<385, 385, 1, 210>>, <<386, 388, 2, 1>>, <<390, 390, 1, 206>>, <<391, 391, 1, 1>>,
       <<393, 394, 1, 205>>, <<395, 395, 1, 1>>, <<398, 398, 1, 79>>, <<399, 399, 1, 202>>,
       <<400, 400, 1, 203>>, <<401, 401, 1, 1>>, <<403, 403, 1, 205>>, <<404, 404, 1, 207>>,
       <<406, 406, 1, 211>>, <<407, 407, 1, 209>>, <<408, 408, 1, 1>>, <<412, 412, 1, 211>>,
       <<413, 413, 1, 213>>, <<415, 415, 1, 214>>, <<416, 420, 2, 1>>, <<422, 422, 1, 218>>,
       <<423, 423, 1, 1>>, <<425, 425, 1, 218>>, <<428, 428, 1, 1>>, <<430, 430, 1, 218>>,
       <<431, 431, 1, 1>>, <<433, 434, 1, 217>>, <<435, 437, 2, 1>>, <<439, 439, 1, 219>>,
       <<440, 440, 1, 1>>, <<444, 444, 1, 1>>, <<452, 452, 1, 2>>, <<453, 453, 1, 1>>,
       <<455, 455, 1, 2>>, <<456, 456, 1, 1>>, <<458, 458, 1, 2>>, <<459, 475, 2, 1>>,
       <<478, 494, 2, 1>>, <<497, 497, 1, 2>>, <<498, 500, 2, 1>>, <<502, 502, 1, -97>>,
       <<503, 503, 1, -56>>, <<504, 542, 2, 1>>, <<544, 544, 1, -130>>, <<546, 562, 2, 1>>,
       <<570, 570, 1, 10795>>, <<571, 571, 1, 1>>, <<573, 573, 1, -163>>, <<574, 574, 1, 10792>>,
       <<577, 577, 1, 1>>, <<579, 579, 1, -195>>, <<580, 580, 1, 69>>, <<581, 581, 1, 71>>,
       <<582, 590, 2, 1>>, <<880, 882, 2, 1>>, <<886, 886, 1, 1>>, <<895, 895, 1, 116>>,
       <<902, 902, 1, 38>>, <<904, 906, 1, 37>>, <<908, 908, 1, 64>>, <<910, 911, 1, 63>>,
       <<913, 929, 1, 32>>, <<931, 939, 1, 32>>, <<975, 975, 1, 8>>, <<984, 1006, 2, 1>>,
       <<1012, 1012, 1, -60>>, <<1015, 1015, 1, 1>>, <<1017, 1017, 1, -7>>, <<1018, 1018, 1, 1>>,
       <<1021, 1023, 1, -130>>, <<1024, 1039, 1, 80>>, <<1040, 1071, 1, 32>>, <<1120, 1152, 2, 1>>,
       <<1162, 1214, 2, 1>>, <<1216, 1216, 1, 15>>, <<1217, 1229, 2, 1>>, <<1232, 1326, 2, 1>>,
       <<1329, 1366, 1, 48>>, <<4256, 4293, 1, 7264>>, <<4295, 4295, 1, 7264>>, <<4301, 4301, 1, 7264>>,
       <<5024, 5103, 1, 38864>>, <<5104, 5109, 1, 8>>, <<7312, 7354, 1, -3008>>, <<7357, 7359, 1, -3008>>,
       <<7680, 7828, 2, 1>>, <<7838, 7838, 1, -7615>>, <<7840, 7934, 2, 1>>, <<7944, 7951, 1, -8>>,
       <<7960, 7965, 1, -8>>, <<7976, 7983, 1, -8>>, <<7992, 7999, 1, -8>>, <<8008, 8013, 1, -8>>,
       <<8025, 8031, 2, -8>>, <<8040, 8047, 1, -8>>, <<8072, 8079, 1, -8>>, <<8088, 8095, 1, -8>>,
       <<8104, 8111, 1, -8>>, <<8120, 8121, 1, -8>>, <<8122, 8123, 1, -74>>, <<8124, 8124, 1, -9>>,
       <<8136, 8139, 1, -86>>, <<8140, 8140, 1, -9>>, <<8152, 8153, 1, -8>>, <<8154, 8155, 1, -100>>,
       <<8168, 8169, 1, -8>>, <<8170, 8171, 1, -112>>, <<8172, 8172, 1, -7>>, <<8184, 8185, 1, -128>>,
       <<8186, 8187, 1, -126>>, <<8188, 8188, 1, -9>>, <<8486, 8486, 1, -7517>>, <<8490, 8490, 1, -8383>>,
       <<8491, 8491, 1, -8262>>, <<8498, 8498, 1, 28>>, <<8544, 8559, 1, 16>>, <<8579, 8579, 1, 1>>,
       <<9398, 9423, 1, 26>>, <<11264, 11311, 1, 48>>, <<11360, 11360, 1, 1>>, <<11362, 11362, 1, -10743>>,
       <<11363, 11363, 1, -3814>>, <<11364, 11364, 1, -10727>>, <<11367, 11371, 2, 1>>, <<11373, 11373, 1, -10780>>,
       <<11374, 11374, 1, -10749>>, <<11375, 11375, 1, -10783>>, <<11376, 11376, 1, -10782>>, <<11378, 11378, 1, 1>>,
       <<11381, 11381, 1, 1>>, <<11390, 11391, 1, -10815>>, <<11392, 11490, 2, 1>>, <<11499, 11501, 2, 1>>,
       <<11506, 11506, 1, 1>>, <<42560, 42604, 2, 1>>, <<42624, 42650, 2, 1>>, <<42786, 42798, 2, 1>>,
       <<42802, 42862, 2, 1>>, <<42873, 42875, 2, 1>>, <<42877, 42877, 1, -35332>>, <<42878, 42886, 2, 1>>,
       <<42891, 42891, 1, 1>>, <<42893, 42893, 1, -42280>>, <<42896, 42898, 2, 1>>, <<42902, 42920, 2, 1>>,
       <<42922, 42922, 1, -42308>>, <<42923, 42923, 1, -42319>>, <<42924, 42924, 1, -42315>>, <<42925, 42925, 1, -42305>>,
       <<42926, 42926, 1, -42308>>, <<42928, 42928, 1, -42258>>, <<42929, 42929, 1, -42282>>, <<42930, 42930, 1, -42261>>,
       <<42931, 42931, 1, 928>>, <<42932, 42946, 2, 1>>, <<42948, 42948, 1, -48>>, <<42949, 42949, 1, -42307>>,
       <<42950, 42950, 1, -35384>>, <<42951, 42953, 2, 1>>, <<42960, 42960, 1, 1>>, <<42966, 42968, 2, 1>>,
       <<42997, 42997, 1, 1>>, <<65313, 65338, 1, 32>>, <<66560, 66599, 1, 40>>, <<66736, 66771, 1, 40>>,
       <<66928, 66938, 1, 39>>, <<66940, 66954, 1, 39>>, <<66956, 66962, 1, 39>>, <<66964, 66965, 1, 39>>,
       <<68736, 68786, 1, 64>>, <<71840, 71871, 1, 32>>, <<93760, 93791, 1, 32>>, <<125184, 125217, 1, 34>> >>

\* The case-ignorable code points c >= 128 (skipped around a capital sigma).
CaseIgnorableRows ==
    << <<168, 168>>, <<173, 173>>, <<175, 175>>, <<180, 180>>, <<183, 184>>, <<688, 879>>,
       <<884, 885>>, <<890, 890>>, <<900, 901>>, <<903, 903>>, <<1155, 1161>>, <<1369, 1369>>,
       <<1375, 1375>>, <<1425, 1469>>, <<1471, 1471>>, <<1473, 1474>>, <<1476, 1477>>, <<1479, 1479>>,
       <<1524, 1524>>, <<1536, 1541>>, <<1552, 1562>>, <<1564, 1564>>, <<1600, 1600>>, <<1611, 1631>>,
       <<1648, 1648>>, <<1750, 1757>>, <<1759, 1768>>, <<1770, 1773>>, <<1807, 1807>>, <<1809, 1809>>,
       <<1840, 1866>>, <<1958, 1968>>, <<2027, 2037>>, <<2042, 2042>>, <<2045, 2045>>, <<2070, 2093>>,
       <<2137, 2139>>, <<2184, 2184>>, <<2192, 2193>>, <<2200, 2207>>, <<2249, 2306>>, <<2362, 2362>>,
       <<2364, 2364>>, <<2369, 2376>>, <<2381, 2381>>, <<2385, 2391>>, <<2402, 2403>>, <<2417, 2417>>,
       <<2433, 2433>>, <<2492, 2492>>, <<2497, 2500>>, <<2509, 2509>>, <<2530, 2531>>, <<2558, 2558>>,
       <<2561, 2562>>, <<2620, 2620>>, <<2625, 2626>>, <<2631, 2632>>, <<2635, 2637>>, <<2641, 2641>>,
       <<2672, 2673>>, <<2677, 2677>>, <<2689, 2690>>, <<2748, 2748>>, <<2753, 2757>>, <<2759, 2760>>,
       <<2765, 2765>>, <<2786, 2787>>, <<2810, 2815>>, <<2817, 2817>>, <<2876, 2876>>, <<2879, 2879>>,
       <<2881, 2884>>, <<2893, 2893>>, <<2901, 2902>>, <<2914, 2915>>, <<2946, 2946>>, <<3008, 3008>>,
       <<3021, 3021>>, <<3072, 3072>>, <<3076, 3076>>, <<3132, 3132>>, <<3134, 3136>>, <<3142, 3144>>,
       <<3146, 3149>>, <<3157, 3158>>, <<3170, 3171>>, <<3201, 3201>>, <<3260, 3260>>, <<3263, 3263>>,
       <<3270, 3270>>, <<3276, 3277>>, <<3298, 3299>>, <<3328, 3329>>, <<3387, 3388>>, <<3393, 3396>>,
       <<3405, 3405>>, <<3426, 3427>>, <<3457, 3457>>, <<3530, 3530>>, <<3538, 3540>>, <<3542, 3542>>,
       <<3633, 3633>>, <<3636, 3642>>, <<3654, 3662>>, <<3761, 3761>>, <<3764, 3772>>, <<3782, 3782>>,
       <<3784, 3789>>, <<3864, 3865>>, <<3893, 3893>>, <<3895, 3895>>, <<3897, 3897>>, <<3953, 3966>>,
       <<3968, 3972>>, <<3974, 3975>>, <<3981, 3991>>, <<3993, 4028>>, <<4038, 4038>>, <<4141, 4144>>,
       <<4146, 4151>>, <<4153, 4154>>, <<4157, 4158>>, <<4184, 4185>>, <<4190, 4192>>, <<4209, 4212>>,
       <<4226, 4226>>, <<4229, 4230>>, <<4237, 4237>>, <<4253, 4253>>, <<4348, 4348>>, <<4957, 4959>>,
       <<5906, 5908>>, <<5938, 5939>>, <<5970, 5971>>, <<6002, 6003>>, <<6068, 6069>>, <<6071, 6077>>,
       <<6086, 6086>>, <<6089, 6099>>, <<6103, 6103>>, <<6109, 6109>>, <<6155, 6159>>, <<6211, 6211>>,
       <<6277, 6278>>, <<6313, 6313>>, <<6432, 6434>>, <<6439, 6440>>, <<6450, 6450>>, <<6457, 6459>>,
       <<6679, 6680>>, <<6683, 6683>>, <<6742, 6742>>, <<6744, 6750>>, <<6752, 6752>>, <<6754, 6754>>,
       <<6757, 6764>>, <<6771, 6780>>, <<6783, 6783>>, <<6823, 6823>>, <<6832, 6862>>, <<6912, 6915>>,
       <<6964, 6964>>, <<6966, 6970>>, <<6972, 6972>>, <<6978, 6978>>, <<7019, 7027>>, <<7040, 7041>>,
       <<7074, 7077>>, <<7080, 7081>>, <<7083, 7085>>, <<7142, 7142>>, <<7144, 7145>>, <<7149, 7149>>,
       <<7151, 7153>>, <<7212, 7219>>, <<7222, 7223>>, <<7288, 7293>>, <<7376, 7378>>, <<7380, 7392>>,
       <<7394, 7400>>, <<7405, 7405>>, <<7412, 7412>>, <<7416, 7417>>, <<7468, 7530>>, <<7544, 7544>>,
       <<7579, 7679>>, <<8125, 8125>>, <<8127, 8129>>, <<8141, 8143>>, <<8157, 8159>>, <<8173, 8175>>,
       <<8189, 8190>>, <<8203, 8207>>, <<8216, 8217>>, <<8228, 8228>>, <<8231, 8231>>, <<8234, 8238>>,
       <<8288, 8292>>, <<8294, 8303>>, <<8305, 8305>>, <<8319, 8319>>, <<8336, 8348>>, <<8400, 8432>>,
       <<11388, 11389>>, <<11503, 11505>>, <<11631, 11631>>, <<11647, 11647>>, <<11744, 11775>>, <<11823, 11823>>,
       <<12293, 12293>>, <<12330, 12333>>, <<12337, 12341>>, <<12347, 12347>>, <<12441, 12446>>, <<12540, 12542>>,
       <<40981, 40981>>, <<42232, 42237>>, <<42508, 42508>>, <<42607, 42610>>, <<42612, 42621>>, <<42623, 42623>>,
       <<42652, 42655>>, <<42736, 42737>>, <<42752, 42785>>, <<42864, 42864>>, <<42888, 42890>>, <<42994, 42996>>,
       <<43000, 43001>>, <<43010, 43010>>, <<43014, 43014>>, <<43019, 43019>>, <<43045, 43046>>, <<43052, 43052>>,
       <<43204, 43205>>, <<43232, 43249>>, <<43263, 43263>>, <<43302, 43309>>, <<43335, 43345>>, <<43392, 43394>>,
       <<43443, 43443>>, <<43446, 43449>>, <<43452, 43453>>, <<43471, 43471>>, <<43493, 43494>>, <<43561, 43566>>,
       <<43569, 43570>>, <<43573, 43574>>, <<43587, 43587>>, <<43596, 43596>>, <<43632, 43632>>, <<43644, 43644>>,
       <<43696, 43696>>, <<43698, 43700>>, <<43703, 43704>>, <<43710, 43711>>, <<43713, 43713>>, <<43741, 43741>>,
       <<43756, 43757>>, <<43763, 43764>>, <<43766, 43766>>, <<43867, 43871>>, <<43881, 43883>>, <<44005, 44005>>,
       <<44008, 44008>>, <<44013, 44013>>, <<64286, 64286>>, <<64434, 64450>>, <<65024, 65039>>, <<65043, 65043>>,
       <<65056, 65071>>, <<65106, 65106>>, <<65109, 65109>>, <<65279, 65279>>, <<65287, 65287>>, <<65294, 65294>>,
       <<65306, 65306>>, <<65342, 65342>>, <<65344, 65344>>, <<65392, 65392>>, <<65438, 65439>>, <<65507, 65507>>,
       <<65529, 65531>>, <<66045, 66045>>, <<66272, 66272>>, <<66422, 66426>>, <<67456, 67461>>, <<67463, 67504>>,
       <<67506, 67514>>, <<68097, 68099>>, <<68101, 68102>>, <<68108, 68111>>, <<68152, 68154>>, <<68159, 68159>>,
       <<68325, 68326>>, <<68900, 68903>>, <<69291, 69292>>, <<69446, 69456>>, <<69506, 69509>>, <<69633, 69633>>,
       <<69688, 69702>>, <<69744, 69744>>, <<69747, 69748>>, <<69759, 69761>>, <<69811, 69814>>, <<69817, 69818>>,
       <<69821, 69821>>, <<69826, 69826>>, <<69837, 69837>>, <<69888, 69890>>, <<69927, 69931>>, <<69933, 69940>>,
       <<70003, 70003>>, <<70016, 70017>>, <<70070, 70078>>, <<70089, 70092>>, <<70095, 70095>>, <<70191, 70193>>,
       <<70196, 70196>>, <<70198, 70199>>, <<70206, 70206>>, <<70367, 70367>>, <<70371, 70378>>, <<70400, 70401>>,
       <<70459, 70460>>, <<70464, 70464>>, <<70502, 70508>>, <<70512, 70516>>, <<70712, 70719>>, <<70722, 70724>>,
       <<70726, 70726>>, <<70750, 70750>>, <<70835, 70840>>, <<70842, 70842>>, <<70847, 70848>>, <<70850, 70851>>,
       <<71090, 71093>>, <<71100, 71101>>, <<71103, 71104>>, <<71132, 71133>>, <<71219, 71226>>, <<71229, 71229>>,
       <<71231, 71232>>, <<71339, 71339>>, <<71341, 71341>>, <<71344, 71349>>, <<71351, 71351>>, <<71453, 71455>>,
       <<71458, 71461>>, <<71463, 71467>>, <<71727, 71735>>, <<71737, 71738>>, <<71995, 71996>>, <<71998, 71998>>,
       <<72003, 72003>>, <<72148, 72151>>, <<72154, 72155>>, <<72160, 72160>>, <<72193, 72202>>, <<72243, 72248>>,
       <<72251, 72254>>, <<72263, 72263>>, <<72273, 72278>>, <<72281, 72283>>, <<72330, 72342>>, <<72344, 72345>>,
       <<72752, 72758>>, <<72760, 72765>>, <<72767, 72767>>, <<72850, 72871>>, <<72874, 72880>>, <<72882, 72883>>,
       <<72885, 72886>>, <<73009, 73014>>, <<73018, 73018>>, <<73020, 73021>>, <<73023, 73029>>, <<73031, 73031>>,
       <<73104, 73105>>, <<73109, 73109>>, <<73111, 73111>>, <<73459, 73460>>, <<78896, 78904>>, <<92912, 92916>>,
       <<92976, 92982>>, <<92992, 92995>>, <<94031, 94031>>, <<94095, 94111>>, <<94176, 94177>>, <<94179, 94180>>,
       <<110576, 110579>>, <<110581, 110587>>, <<110589, 110590>>, <<113821, 113822>>, <<113824, 113827>>, <<118528, 118573>>,
       <<118576, 118598>>, <<119143, 119145>>, <<119155, 119170>>, <<119173, 119179>>, <<119210, 119213>>, <<119362, 119364>>,
       <<121344, 121398>>, <<121403, 121452>>, <<121461, 121461>>, <<121476, 121476>>, <<121499, 121503>>, <<121505, 121519>>,
       <<122880, 122886>>, <<122888, 122904>>, <<122907, 122913>>, <<122915, 122916>>, <<122918, 122922>>, <<123184, 123197>>,
       <<123566, 123566>>, <<123628, 123631>>, <<125136, 125142>>, <<125252, 125259>>, <<127995, 127999>>, <<917505, 917505>>,
       <<917536, 917631>>, <<917760, 917999>> >>

\* The cased code points c >= 128 that are not case-ignorable.
CasedRows ==
    << <<170, 170>>, <<181, 181>>, <<186, 186>>, <<192, 214>>, <<216, 246>>, <<248, 442>>,
       <<444, 447>>, <<452, 659>>, <<661, 687>>, <<880, 883>>, <<886, 887>>, <<891, 893>>,
       <<895, 895>>, <<902, 902>>, <<904, 906>>, <<908, 908>>, <<910, 929>>, <<931, 1013>>,
       <<1015, 1153>>, <<1162, 1327>>, <<1329, 1366>>, <<1376, 1416>>, <<4256, 4293>>, <<4295, 4295>>,
       <<4301, 4301>>, <<4304, 4346>>, <<4349, 4351>>, <<5024, 5109>>, <<5112, 5117>>, <<7296, 7304>>,
       <<7312, 7354>>, <<7357, 7359>>, <<7424, 7467>>, <<7531, 7543>>, <<7545, 7578>>, <<7680, 7957>>,
       <<7960, 7965>>, <<7968, 8005>>, <<8008, 8013>>, <<8016, 8023>>, <<8025, 8025>>, <<8027, 8027>>,
       <<8029, 8029>>, <<8031, 8061>>, <<8064, 8116>>, <<8118, 8124>>, <<8126, 8126>>, <<8130, 8132>>,
       <<8134, 8140>>, <<8144, 8147>>, <<8150, 8155>>, <<8160, 8172>>, <<8178, 8180>>, <<8182, 8188>>,
       <<8450, 8450>>, <<8455, 8455>>, <<8458, 8467>>, <<8469, 8469>>, <<8473, 8477>>, <<8484, 8484>>,
       <<8486, 8486>>, <<8488, 8488>>, <<8490, 8493>>, <<8495, 8500>>, <<8505, 8505>>, <<8508, 8511>>,
       <<8517, 8521>>, <<8526, 8526>>, <<8544, 8575>>, <<8579, 8580>>, <<9398, 9449>>, <<11264, 11387>>,
       <<11390, 11492>>, <<11499, 11502>>, <<11506, 11507>>, <<11520, 11557>>, <<11559, 11559>>, <<11565, 11565>>,
       <<42560, 42605>>, <<42624, 42651>>, <<42786, 42863>>, <<42865, 42887>>, <<42891, 42894>>, <<42896, 42954>>,
       <<42960, 42961>>, <<42963, 42963>>, <<42965, 42969>>, <<42997, 42998>>, <<43002, 43002>>, <<43824, 43866>>,
       <<43872, 43880>>, <<43888, 43967>>, <<64256, 64262>>, <<64275, 64279>>, <<65313, 65338>>, <<65345, 65370>>,
       <<66560, 66639>>, <<66736, 66771>>, <<66776, 66811>>, <<66928, 66938>>, <<66940, 66954>>, <<66956, 66962>>,
       <<66964, 66965>>, <<66967, 66977>>, <<66979, 66993>>, <<66995, 67001>>, <<67003, 67004>>, <<68736, 68786>>,
       <<68800, 68850>>, <<71840, 71903>>, <<93760, 93823>>, <<119808, 119892>>, <<119894, 119964>>, <<119966, 119967>>,
       <<119970, 119970>>, <<119973, 119974>>, <<119977, 119980>>, <<119982, 119993>>, <<119995, 119995>>, <<119997, 120003>>,
       <<120005, 120069>>, <<120071, 120074>>, <<120077, 120084>>, <<120086, 120092>>, <<120094, 120121>>, <<120123, 120126>>,
       <<120128, 120132>>, <<120134, 120134>>, <<120138, 120144>>, <<120146, 120485>>, <<120488, 120512>>, <<120514, 120538>>,
       <<120540, 120570>>, <<120572, 120596>>, <<120598, 120628>>, <<120630, 120654>>, <<120656, 120686>>, <<120688, 120712>>,
       <<120714, 120744>>, <<120746, 120770>>, <<120772, 120779>>, <<122624, 122633>>, <<122635, 122654>>, <<125184, 125251>>,
       <<127280, 127305>>, <<127312, 127337>>, <<127344, 127369>> >>

\* str.isalnum() of one character.
isalnum(c) ==
    IF c < 128 THEN (c >= 48 /\ c <= 57) \/ (c >= 65 /\ c <= 90) \/ (c >= 97 /\ c <= 122)
    ELSE in_ranges(c, AlnumRows)

\* str.lower() of one character that lowers to one character, whatever
\* stands around it.
lower_char(c) ==
    IF c < 128 THEN (IF c >= 65 /\ c <= 90 THEN c + 32 ELSE c)
    ELSE LET hit == {k \in DOMAIN LowerRows :
                         /\ LowerRows[k][1] <= c /\ c <= LowerRows[k][2]
                         /\ (c - LowerRows[k][1]) % LowerRows[k][3] = 0}
         IN  IF hit = {} THEN c ELSE c + LowerRows[CHOOSE k \in hit : TRUE][4]

case_ignorable(c) ==
    IF c < 128 THEN c \in {39, 46, 58, 94, 96} ELSE in_ranges(c, CaseIgnorableRows)
cased(c) ==
    IF c < 128 THEN (c >= 65 /\ c <= 90) \/ (c >= 97 /\ c <= 122)
    ELSE in_ranges(c, CasedRows)

\* The capital sigma at index i of s ends a word: the nearest character
\* before it that is not case-ignorable is cased, and the nearest one after
\* it, if there is one, is not.
final_sigma(s, i) ==
    LET before == {j \in 0..(i - 1) : ~case_ignorable(s[j + 1])}
        after == {j \in (i + 1)..(Len(s) - 1) : ~case_ignorable(s[j + 1])}
        prev == CHOOSE j \in before : \A k \in before : k <= j
        next == CHOOSE j \in after : \A k \in after : j <= k
    IN  /\ before # {}
        /\ cased(s[prev + 1])
        /\ (after = {} \/ ~cased(s[next + 1]))

\* What str.lower() puts for the character at index i of s: 'İ' becomes two
\* characters, a capital sigma the final or the medial small sigma.
lower_at(s, i) ==
    LET c == s[i + 1]
    IN  IF c = 931 THEN (IF final_sigma(s, i) THEN <<962>> ELSE <<963>>)
        ELSE IF c = 304 THEN <<105, 775>>
        ELSE <<lower_char(c)>>

\* str.lower() of a string: done is the lower case of its first i characters.
RECURSIVE lower_from(_, _, _)
lower_from(s, i, done) ==
    IF i = Len(s) THEN done
    ELSE lower_from(s, i + 1, done \o lower_at(s, i))
lower(s) == lower_from(s, 0, <<>>)

\* ------------------------------------------------------------ boundary checker
is_word_boundary_off_by_one(t, start, end) ==
    LET before == IF start > 0 /\ start < Len(t) THEN t[start + 1] ELSE 32
        after == IF end < Len(t) THEN t[end + 1] ELSE 32
    IN  (~isalnum(before)) /\ (~isalnum(after))

\* _is_word_boundary(text, start, end): the character before the span and the
\* character at its end, a space standing in at either edge of the text.
is_word_boundary(t, start, end) ==
    LET before == IF start > 0 THEN t[start] ELSE 32
        after == IF end < Len(t) THEN t[end + 1] ELSE 32
    IN  (~isalnum(before)) /\ (~isalnum(after))

\* ------------------------------------------------------------ brute force
\* The inner while loop: compares from pattern index j at offset i, counting
\* every test, the failing one included.  Returns the j it stops at and the
\* number of tests made.
\* The while loop with the counter incremented behind the test, so that the
\* test that fails is not counted.
RECURSIVE bf_inner_skip_failing(_, _, _, _)
bf_inner_skip_failing(t, p, i, j) ==
    IF j < Len(p)
    THEN IF t[i + j + 1] # p[j + 1]
         THEN [j |-> j, comparisons |-> 0]
         ELSE LET r == bf_inner_skip_failing(t, p, i, j + 1)
              IN  [j |-> r.j, comparisons |-> r.comparisons + 1]
    ELSE [j |-> j, comparisons |-> 0]

RECURSIVE bf_inner(_, _, _, _)
bf_inner(t, p, i, j) ==
    IF j < Len(p)
    THEN IF t[i + j + 1] # p[j + 1]
         THEN [j |-> j, comparisons |-> 1]
         ELSE LET r == bf_inner(t, p, i, j + 1)
              IN  [j |-> r.j, comparisons |-> r.comparisons + 1]
    ELSE [j |-> j, comparisons |-> 0]

bf_iteration_resets(t, p, s) ==
    LET r == bf_inner(t, p, s.i, 0)
        hit == r.j = Len(p) /\ is_word_boundary(t, s.i, s.i + Len(p))
    IN  [i |-> s.i + 1,
         found_count |-> s.found_count + (IF hit THEN 1 ELSE 0),
         comparisons |-> r.comparisons]

\* One iteration of the for loop, at offset s.i; s holds the loop variable
\* and the two counters.
bf_iteration(t, p, s) ==
    LET r == bf_inner(t, p, s.i, 0)
        hit == r.j = Len(p) /\ is_word_boundary(t, s.i, s.i + Len(p))
    IN  [i |-> s.i + 1,
         found_count |-> s.found_count + (IF hit THEN 1 ELSE 0),
         comparisons |-> s.comparisons + r.comparisons]

\* The for loop over the offsets 0 .. n-m.
RECURSIVE bf_outer(_, _, _)
bf_outer(t, p, s) ==
    IF s.i < Len(t) - Len(p) + 1
    THEN bf_outer(t, p, bf_iteration(t, p, s))
    ELSE [found_count |-> s.found_count, comparisons |-> s.comparisons]

brute_force_search_no_boundary(t, p) ==
    IF Len(p) = 0 THEN [found_count |-> 0, comparisons |-> 0]
    ELSE IF Len(t) < Len(p) THEN [found_count |-> 0, comparisons |-> 0]
    ELSE LET n == Len(t) - Len(p) + 1
             full == {i \in 0..(n - 1) : bf_inner(t, p, i, 0).j = Len(p)}
         IN  [found_count |-> Cardinality(full),
              comparisons |-> bf_outer(t, p, [i |-> 0, found_count |-> 0, comparisons |-> 0]).comparisons]

brute_force_search_no_guard(t, p) ==
    IF Len(t) < Len(p) THEN [found_count |-> 0, comparisons |-> 0]
    ELSE bf_outer(t, p, [i |-> 0, found_count |-> 0, comparisons |-> 0])

brute_force_search(t, p) ==
    IF Len(p) = 0 THEN [found_count |-> 0, comparisons |-> 0]
    ELSE IF Len(t) < Len(p) THEN [found_count |-> 0, comparisons |-> 0]
    ELSE bf_outer(t, p, [i |-> 0, found_count |-> 0, comparisons |-> 0])

\* ------------------------------------------------------------ big integers
(***************************************************************************)
(* Python integers are unbounded and rabin_karp_search works modulo        *)
(* 2^61 - 1, which is beyond the integers TLC computes with.  A big        *)
(* integer is kept here as six digits, least significant first: five in    *)
(* base LimbBase and a top digit that holds all the rest.  The largest     *)
(* value the search forms is power * ord(c) < 2^61 * 2^21; every operator  *)
(* below computes what Python's +, -, * and % compute on such values.      *)
(***************************************************************************)
LimbBase == 32768
big_digits(d1, d2, d3, d4, d5, d6) == <<d1, d2, d3, d4, d5, d6>>

\* Carry propagation over digits that may exceed the base.
big_carry(d) ==
    LET v2 == d[2] + (d[1] \div LimbBase)
        v3 == d[3] + (v2 \div LimbBase)
        v4 == d[4] + (v3 \div LimbBase)
        v5 == d[5] + (v4 \div LimbBase)
        v6 == d[6] + (v5 \div LimbBase)
    IN  big_digits(d[1] % LimbBase, v2 % LimbBase, v3 % LimbBase, v4 % LimbBase,
                   v5 % LimbBase, v6)

big_of(k) == big_carry(big_digits(k, 0, 0, 0, 0, 0))
big_add(x, y) ==
    big_carry(big_digits(x[1] + y[1], x[2] + y[2], x[3] + y[3], x[4] + y[4], x[5] + y[5],
                         x[6] + y[6]))
\* x * k for a digit k.
big_mul_digit(x, k) ==
    big_carry(big_digits(x[1] * k, x[2] * k, x[3] * k, x[4] * k, x[5] * k, x[6] * k))
\* x * LimbBase.
big_shift(x) == big_digits(0, x[1], x[2], x[3], x[4], x[5] + x[6] * LimbBase)
\* x * k for a small k (a base or a code point, below 2^21): k is taken as
\* two digits.
big_mul_small(x, k) ==
    big_add(big_mul_digit(x, k % LimbBase), big_shift(big_mul_digit(x, k \div LimbBase)))

\* x - y for x >= y: y is taken off a copy of x that has lent one unit of
\* each digit to the digit below it, and the carries give the loans back.
big_sub(x, y) ==
    big_carry(big_digits(x[1] + LimbBase - y[1],
                         x[2] + LimbBase - 1 - y[2],
                         x[3] + LimbBase - 1 - y[3],
                         x[4] + LimbBase - 1 - y[4],
                         x[5] + LimbBase - 1 - y[5],
                         x[6] - 1 - y[6]))

big_less(x, y) ==
    IF x[6] # y[6] THEN x[6] < y[6]
    ELSE IF x[5] # y[5] THEN x[5] < y[5]
    ELSE IF x[4] # y[4] THEN x[4] < y[4]
    ELSE IF x[3] # y[3] THEN x[3] < y[3]
    ELSE IF x[2] # y[2] THEN x[2] < y[2]
    ELSE x[1] < y[1]

\* mod = 2305843009213693951 = 2^61 - 1: sixty one-bits and one more.
rk_mod == <<32767, 32767, 32767, 32767, 1, 0>>
rk_base == 256

\* x % mod for 0 <= x < 2^90: 2^61 = 1 (mod 2^61 - 1), so the bits from 61 up
\* are added to the low 61 bits, and mod is taken off once if that reaches it.
big_mod_once(folded) == IF big_less(folded, rk_mod) THEN folded ELSE big_sub(folded, rk_mod)
big_mod(x) ==
    big_mod_once(big_add(big_digits(x[1], x[2], x[3], x[4], x[5] % 2, 0),
                         big_of((x[5] \div 2) + x[6] * (LimbBase \div 2))))

\* ------------------------------------------------------------ Rabin-Karp
\* The first loop: the polynomial hash of the first m characters of str;
\* s holds the loop variable i and the hash so far.
RECURSIVE rk_hash_loop(_, _, _)
rk_hash_loop(str, m, s) ==
    IF s.i < m
    THEN rk_hash_loop(str, m,
             [i |-> s.i + 1,
              h |-> big_mod(big_add(big_mul_small(s.h, rk_base), big_of(str[s.i + 1])))])
    ELSE s.h
rk_hash(str, m) == rk_hash_loop(str, m, [i |-> 0, h |-> big_of(0)])

\* pow(base, e, mod): s holds the exponent reached and base to that power.
RECURSIVE rk_pow_loop(_, _)
rk_pow_loop(e, s) ==
    IF s.k < e
    THEN rk_pow_loop(e, [k |-> s.k + 1, v |-> big_mod(big_mul_small(s.v, rk_base))])
    ELSE s.v
rk_pow(e) == rk_pow_loop(e, [k |-> 0, v |-> big_of(1)])

\* The character-by-character check of the window at offset i, from pattern
\* index j on: whether it matches, and the characters tested.
RECURSIVE rk_verify(_, _, _, _)
rk_verify(t, p, i, j) ==
    IF j < Len(p)
    THEN IF t[i + j + 1] # p[j + 1]
         THEN [match |-> FALSE, comparisons |-> 1]
         ELSE LET r == rk_verify(t, p, i, j + 1)
              IN  [match |-> r.match, comparisons |-> r.comparisons + 1]
    ELSE [match |-> TRUE, comparisons |-> 0]

\* The roll with the leading character taken off unweighted.
rk_roll_assignment_unweighted(s, lead_char_val, new_char_val, power) ==
    CASE s.done = 0 ->
             [done |-> 1,
              h |-> big_mod(big_sub(big_add(s.h, rk_mod), big_of(lead_char_val)))]
      [] s.done = 1 -> [done |-> 2, h |-> big_mod(big_mul_small(s.h, rk_base))]
      [] s.done = 2 -> [done |-> 3, h |-> big_mod(big_add(s.h, big_of(new_char_val)))]

\* The three assignments that roll win_hash one character to the right, in
\* turn: s holds how many are done and the value win_hash has by then.
\* win_hash - x + mod is computed as (win_hash + mod) - x, the same integer.
rk_roll_assignment(s, lead_char_val, new_char_val, power) ==
    CASE s.done = 0 ->
             [done |-> 1,
              h |-> big_mod(big_sub(big_add(s.h, rk_mod),
                                    big_mod(big_mul_small(power, lead_char_val))))]
      [] s.done = 1 -> [done |-> 2, h |-> big_mod(big_mul_small(s.h, rk_base))]
      [] s.done = 2 -> [done |-> 3, h |-> big_mod(big_add(s.h, big_of(new_char_val)))]

RECURSIVE rk_roll_from(_, _, _, _)
rk_roll_from(s, lead_char_val, new_char_val, power) ==
    IF s.done < 3
    THEN rk_roll_from(rk_roll_assignment(s, lead_char_val, new_char_val, power),
                      lead_char_val, new_char_val, power)
    ELSE s.h
rk_roll(win_hash, lead_char_val, new_char_val, power) ==
    rk_roll_from([done |-> 0, h |-> win_hash], lead_char_val, new_char_val, power)

rk_counted(acc, v, boundary) ==
    [found_count |-> acc.found_count + (IF v.match /\ boundary THEN 1 ELSE 0),
     comparisons |-> acc.comparisons + v.comparisons]

rk_window_unverified(t, p, i, win_hash, pat_hash, acc) ==
    IF win_hash = pat_hash
    THEN rk_counted(acc, [match |-> TRUE, comparisons |-> 0],
                    is_word_boundary(t, i, i + Len(p)))
    ELSE acc

\* What is done with the window at offset i once its hash is known: on a hash
\* hit the characters are checked, and a verified whole-word window counts.
rk_window(t, p, i, win_hash, pat_hash, acc) ==
    IF win_hash = pat_hash
    THEN rk_counted(acc, rk_verify(t, p, i, 0), is_word_boundary(t, i, i + Len(p)))
    ELSE acc

\* The window at offset s.i, whose hash is h, is examined, and the loop
\* variable moves on.
rk_examined(t, p, pat_hash, s, h) ==
    [i |-> s.i + 1, win_hash |-> h,
     counts |-> rk_window(t, p, s.i, h, pat_hash, s.counts)]

\* One iteration of the second for loop, at offset s.i: the hash is rolled,
\* then the window is examined.  s holds the loop variable, the window hash
\* and the two counters.
rk_iteration(t, p, pat_hash, power, s) ==
    rk_examined(t, p, pat_hash, s, rk_roll(s.win_hash, t[s.i], t[s.i + Len(p)], power))

\* The second for loop, over the offsets 1 .. n-m.
RECURSIVE rk_loop(_, _, _, _, _)
rk_loop(t, p, pat_hash, power, s) ==
    IF s.i < Len(t) - Len(p) + 1
    THEN rk_loop(t, p, pat_hash, power, rk_iteration(t, p, pat_hash, power, s))
    ELSE s.counts

\* The search once the two hashes and the power are computed: the window at
\* offset 0, then the loop.
rk_search_from(t, p, pat_hash, win_hash, power) ==
    rk_loop(t, p, pat_hash, power,
            rk_examined(t, p, pat_hash,
                        [i |-> 0, counts |-> [found_count |-> 0, comparisons |-> 0]],
                        win_hash))

rabin_karp_search(t, p) ==
    IF Len(p) = 0 THEN [found_count |-> 0, comparisons |-> 0]
    ELSE IF Len(t) < Len(p) THEN [found_count |-> 0, comparisons |-> 0]
    ELSE rk_search_from(t, p, rk_hash(p, Len(p)), rk_hash(t, Len(p)), rk_pow(Len(p) - 1))

\* ------------------------------------------------------------ KMP
RECURSIVE lps_loop_restart(_, _, _, _)
lps_loop_restart(p, lps, length, i) ==
    IF i < Len(p)
    THEN IF p[i + 1] = p[length + 1]
         THEN lps_loop_restart(p, [lps EXCEPT ![i + 1] = length + 1], length + 1, i + 1)
         ELSE IF length # 0
              THEN lps_loop_restart(p, lps, 0, i)
              ELSE lps_loop_restart(p, [lps EXCEPT ![i + 1] = 0], length, i + 1)
    ELSE lps

\* The while loop that fills lps: i is the index being filled, length the
\* length of the current prefix-suffix.
RECURSIVE lps_loop(_, _, _, _)
lps_loop(p, lps, length, i) ==
    IF i < Len(p)
    THEN IF p[i + 1] = p[length + 1]
         THEN lps_loop(p, [lps EXCEPT ![i + 1] = length + 1], length + 1, i + 1)
         ELSE IF length # 0
              THEN lps_loop(p, lps, lps[length], i)
              ELSE lps_loop(p, [lps EXCEPT ![i + 1] = 0], length, i + 1)
    ELSE lps

RECURSIVE zeros(_)
zeros(n) == IF n = 0 THEN <<>> ELSE <<0>> \o zeros(n - 1)

compute_lps(p) == lps_loop(p, zeros(Len(p)), 0, 1)

kmp_step_restart(t, p, lps, s) ==
    IF t[s.i + 1] = p[s.j + 1]
    THEN IF s.j + 1 = Len(p)
         THEN [i |-> s.i + 1, j |-> 0,
               comparisons |-> s.comparisons + 1,
               found_count |-> s.found_count
                   + (IF is_word_boundary(t, s.i + 1 - Len(p), s.i + 1) THEN 1 ELSE 0)]
         ELSE [s EXCEPT !.i = @ + 1, !.j = @ + 1, !.comparisons = @ + 1]
    ELSE IF s.j # 0
         THEN [s EXCEPT !.j = 0, !.i = @ + 1, !.comparisons = @ + 1]
         ELSE [s EXCEPT !.i = @ + 1, !.comparisons = @ + 1]

\* The scan with every full character match counted, whatever the boundary.
kmp_step_counts_regardless(t, p, lps, s) ==
    IF t[s.i + 1] = p[s.j + 1]
    THEN IF s.j + 1 = Len(p)
         THEN [i |-> s.i + 1, j |-> lps[s.j + 1],
               comparisons |-> s.comparisons + 1,
               found_count |-> s.found_count + 1]
         ELSE [s EXCEPT !.i = @ + 1, !.j = @ + 1, !.comparisons = @ + 1]
    ELSE IF s.j # 0
         THEN [s EXCEPT !.j = lps[s.j], !.comparisons = @ + 1]
         ELSE [s EXCEPT !.i = @ + 1, !.comparisons = @ + 1]

\* The scan without the table: on a mismatch behind a partial match the text
\* cursor goes back to the character after the one the match began at.
kmp_step_backtracks(t, p, lps, s) ==
    IF t[s.i + 1] = p[s.j + 1]
    THEN IF s.j + 1 = Len(p)
         THEN [i |-> s.i + 1, j |-> lps[s.j + 1],
               comparisons |-> s.comparisons + 1,
               found_count |-> s.found_count
                   + (IF is_word_boundary(t, s.i + 1 - (s.j + 1), s.i + 1) THEN 1 ELSE 0)]
         ELSE [s EXCEPT !.i = @ + 1, !.j = @ + 1, !.comparisons = @ + 1]
    ELSE IF s.j # 0
         THEN [s EXCEPT !.i = @ - s.j + 1, !.j = 0, !.comparisons = @ + 1]
         ELSE [s EXCEPT !.i = @ + 1, !.comparisons = @ + 1]

\* One pass of the scan loop from the cursors s = (i, j) and the counters.
kmp_step(t, p, lps, s) ==
    IF t[s.i + 1] = p[s.j + 1]
    THEN IF s.j + 1 = Len(p)
         THEN [i |-> s.i + 1, j |-> lps[s.j + 1],
               comparisons |-> s.comparisons + 1,
               found_count |-> s.found_count
                   + (IF is_word_boundary(t, s.i + 1 - (s.j + 1), s.i + 1) THEN 1 ELSE 0)]
         ELSE [s EXCEPT !.i = @ + 1, !.j = @ + 1, !.comparisons = @ + 1]
    ELSE IF s.j # 0
         THEN [s EXCEPT !.j = lps[s.j], !.comparisons = @ + 1]
         ELSE [s EXCEPT !.i = @ + 1, !.comparisons = @ + 1]

\* The scan loop: while i < n.
RECURSIVE kmp_scan(_, _, _, _)
kmp_scan(t, p, lps, s) ==
    IF s.i < Len(t) THEN kmp_scan(t, p, lps, kmp_step(t, p, lps, s))
    ELSE [found_count |-> s.found_count, comparisons |-> s.comparisons]

kmp_search(t, p) ==
    IF Len(p) = 0 THEN [found_count |-> 0, comparisons |-> 0]
    ELSE IF Len(t) < Len(p) THEN [found_count |-> 0, comparisons |-> 0]
    ELSE kmp_scan(t, p, compute_lps(p),
                  [i |-> 0, j |-> 0, comparisons |-> 0, found_count |-> 0])

\* ------------------------------------------------------------ algorithms.py
\* compute_lps_array(pattern): the while loop, and the function.
RECURSIVE lps_array_loop(_, _, _, _)
lps_array_loop(p, lps, length, i) ==
    IF i < Len(p)
    THEN IF p[i + 1] = p[length + 1]
         THEN lps_array_loop(p, [lps EXCEPT ![i + 1] = length + 1], length + 1, i + 1)
         ELSE IF length # 0
              THEN lps_array_loop(p, lps, lps[length], i)
              ELSE lps_array_loop(p, [lps EXCEPT ![i + 1] = 0], length, i + 1)
    ELSE lps
compute_lps_array(p) == lps_array_loop(p, zeros(Len(p)), 0, 1)

\* rabin_karp_search(text, patterns, d, q), for one pattern of the list.
\* pow(d, e, q): s holds the exponent reached and d to that power modulo q.
RECURSIVE pow_loop(_, _, _, _)
pow_loop(d, e, q, s) ==
    IF s.k < e THEN pow_loop(d, e, q, [k |-> s.k + 1, v |-> (d * s.v) % q]) ELSE s.v
pow(d, e, q) == pow_loop(d, e, q, [k |-> 0, v |-> 1 % q])

\* The initial hash computation over the first m characters of str.
RECURSIVE initial_hash_loop(_, _, _, _, _)
initial_hash_loop(str, m, d, q, s) ==
    IF s.i < m
    THEN initial_hash_loop(str, m, d, q, [i |-> s.i + 1, v |-> (d * s.v + str[s.i + 1]) % q])
    ELSE s.v
initial_hash(str, m, d, q) == initial_hash_loop(str, m, d, q, [i |-> 0, v |-> 0])

rk_compare_unchecked(t, pat, p_hash, s) ==
    IF p_hash = s.t
    THEN [s EXCEPT !.occurrences = Append(@, s.i),
                   !.comparison_count = @ + 1 + Len(pat)]
    ELSE [s EXCEPT !.comparison_count = @ + 1]

\* The head of the loop body at window s.i: the hashes are compared, and on
\* equal hashes the window is compared with the pattern.
rk_compare(t, pat, p_hash, s) ==
    IF p_hash = s.t /\ SubSeq(t, s.i + 1, s.i + Len(pat)) = pat
    THEN [s EXCEPT !.occurrences = Append(@, s.i),
                   !.comparison_count = @ + 1 + Len(pat)]
    ELSE [s EXCEPT !.comparison_count = @ + 1]

\* The rest of the loop body: the rolling hash, but for the last window.  The
\* remainder of Python's % has the sign of q, so t is never below 0.
rk_rolled(t, pat, d, q, h, s) ==
    IF s.i < Len(t) - Len(pat)
    THEN [s EXCEPT !.t = (d * (s.t - t[s.i + 1] * h) + t[s.i + Len(pat) + 1]) % q,
                   !.i = @ + 1]
    ELSE [s EXCEPT !.i = @ + 1]

\* The loop over the windows 0 .. n-m; s holds i, t, occurrences and
\* comparison_count.
RECURSIVE rk_windows(_, _, _, _, _, _, _)
rk_windows(t, pat, d, q, h, p_hash, s) ==
    IF s.i < Len(t) - Len(pat) + 1
    THEN rk_windows(t, pat, d, q, h, p_hash,
                    rk_rolled(t, pat, d, q, h, rk_compare(t, pat, p_hash, s)))
    ELSE [occurrences |-> s.occurrences, comparisons |-> s.comparison_count]

rk_pattern(t, pat, d, q) ==
    IF Len(pat) = 0 \/ Len(t) < Len(pat) THEN [occurrences |-> <<>>, comparisons |-> 0]
    ELSE rk_windows(t, pat, d, q, pow(d, Len(pat) - 1, q), initial_hash(pat, Len(pat), d, q),
                    [i |-> 0, t |-> initial_hash(t, Len(pat), d, q),
                     occurrences |-> <<>>, comparison_count |-> 0])

\* The dictionary returned: a result for every pattern of the list.
algorithms_rabin_karp_search(t, pats, d, q) ==
    [pat \in {pats[k] : k \in DOMAIN pats} |-> rk_pattern(t, pat, d, q)]

\* The two ways out of a function: an exception, or a returned value.
Raised(exception) == [raised |-> exception]
Returned(value) == [returned |-> value]
is_raised(outcome) == "raised" \in DOMAIN outcome

\* brute_force_search(text, patterns), for one pattern: the inner for loop
\* from index j on (the tests made and whether all matched), the loop over
\* the offsets, and the result.
RECURSIVE bf_match(_, _, _, _)
bf_match(t, pat, i, j) ==
    IF j < Len(pat)
    THEN IF t[i + j + 1] # pat[j + 1]
         THEN [match |-> FALSE, comparison_count |-> 1]
         ELSE LET r == bf_match(t, pat, i, j + 1)
              IN  [match |-> r.match, comparison_count |-> r.comparison_count + 1]
    ELSE [match |-> TRUE, comparison_count |-> 0]
bf_offset(t, pat, s, r) ==
    [i |-> s.i + 1,
     occurrences |-> IF r.match THEN Append(s.occurrences, s.i) ELSE s.occurrences,
     comparison_count |-> s.comparison_count + r.comparison_count]
RECURSIVE bf_offsets(_, _, _)
bf_offsets(t, pat, s) ==
    IF s.i < Len(t) - Len(pat) + 1
    THEN bf_offsets(t, pat, bf_offset(t, pat, s, bf_match(t, pat, s.i, 0)))
    ELSE [occurrences |-> s.occurrences, comparisons |-> s.comparison_count]
bf_pattern(t, pat) == bf_offsets(t, pat, [i |-> 0, occurrences |-> <<>>, comparison_count |-> 0])

\* kmp_search(text, patterns), for one pattern.  One pass of the while loop:
\* the comparison, then the full match or the mismatch; s holds i, j,
\* occurrences and comparison_count.
kmp_compared(t, pat, s) ==
    IF t[s.i + 1] = pat[s.j + 1]
    THEN [s EXCEPT !.i = @ + 1, !.j = @ + 1, !.comparison_count = @ + 1]
    ELSE [s EXCEPT !.comparison_count = @ + 1]
kmp_shifted(t, pat, lps, s) ==
    IF s.j = Len(pat)
    THEN [s EXCEPT !.occurrences = Append(@, s.i - s.j), !.j = lps[s.j]]
    ELSE IF s.i < Len(t) /\ t[s.i + 1] # pat[s.j + 1]
         THEN IF s.j # 0 THEN [s EXCEPT !.j = lps[s.j]] ELSE [s EXCEPT !.i = @ + 1]
         ELSE s
RECURSIVE kmp_while(_, _, _, _)
kmp_while(t, pat, lps, s) ==
    IF s.i < Len(t)
    THEN kmp_while(t, pat, lps, kmp_shifted(t, pat, lps, kmp_compared(t, pat, s)))
    ELSE [occurrences |-> s.occurrences, comparisons |-> s.comparison_count]
\* pattern[j] of an empty pattern raises IndexError at the first comparison,
\* which there is unless the text is empty too.
kmp_pattern(t, pat) ==
    IF Len(pat) = 0 /\ Len(t) > 0 THEN Raised("IndexError")
    ELSE kmp_while(t, pat, compute_lps_array(pat),
                   [i |-> 0, j |-> 0, occurrences |-> <<>>, comparison_count |-> 0])

\* The loop over patterns that fills the dictionary results, for each of the
\* three functions: a later pattern overwrites an equal earlier one, and an
\* exception leaves the loop and the function.
RECURSIVE over_patterns(_, _, _, _)
over_patterns(file, t, pats, dict) ==
    IF pats = <<>> THEN Returned(dict)
    ELSE LET r == CASE file = "brute_force_search" -> bf_pattern(t, Head(pats))
                    [] file = "kmp_search" -> kmp_pattern(t, Head(pats))
                    [] file = "rabin_karp_search" -> rk_pattern(t, Head(pats), 256, 101)
         IN  IF is_raised(r) THEN r
             ELSE over_patterns(file, t, Tail(pats), (Head(pats) :> r) @@ dict)
algorithms_brute_force_search(t, pats) == over_patterns("brute_force_search", t, pats, <<>>)
algorithms_kmp_search(t, pats) == over_patterns("kmp_search", t, pats, <<>>)

\* run_all_algorithms(text, patterns), the times left out: the three are
\* called in turn, and an exception of one leaves the function.
run_all_consolidated(bf_result, kmp_result, rk_result) ==
    IF is_raised(bf_result) THEN bf_result
    ELSE IF is_raised(kmp_result) THEN kmp_result
    ELSE Returned(("Brute Force" :> [results |-> bf_result.returned])
                  @@ ("KMP" :> [results |-> kmp_result.returned])
                  @@ ("Rabin-Karp" :> [results |-> rk_result]))
run_all_algorithms(t, pats) ==
    run_all_consolidated(algorithms_brute_force_search(t, pats),
                         algorithms_kmp_search(t, pats),
                         algorithms_rabin_karp_search(t, pats, 256, 101))

\* ------------------------------------------------------------ the matchers, run
\* The table ALGORITHMS of main.py, in its insertion order: the three
\* matchers of that file, each called as algo_func(text, keyword) and
\* returning the pair (found_count, comparisons).
AlgoNames == <<"Brute Force", "Rabin-Karp", "Knuth-Morris-Pratt (KMP)">>

main_ALGORITHMS(name, t, p) ==
    CASE name = "Brute Force" -> brute_force_search(t, p)
      [] name = "Rabin-Karp" -> rabin_karp_search(t, p)
      [] name = "Knuth-Morris-Pratt (KMP)" -> kmp_search(t, p)

\* The table ALGORITHMS of app.py, under the same three names: the functions
\* app.py imports from algorithms.py, which take a list of patterns and
\* return a dictionary.  app.py calls them as algo_func(text, keyword) with
\* a keyword that is a str, and the loop over patterns then runs over the
\* characters of the keyword.
chars(p) == [k \in DOMAIN p |-> <<p[k]>>]
ALGORITHMS(name, t, p) ==
    CASE name = "Brute Force" -> algorithms_brute_force_search(t, chars(p))
      [] name = "Rabin-Karp" -> Returned(algorithms_rabin_karp_search(t, chars(p), 256, 101))
      [] name = "Knuth-Morris-Pratt (KMP)" -> algorithms_kmp_search(t, chars(p))

\* The keys of the dictionary returned for the patterns pats, in the order a
\* loop over the dictionary meets them: each pattern once, where it first was.
RECURSIVE dict_keys(_, _)
dict_keys(pats, seen) ==
    IF pats = <<>> THEN seen
    ELSE dict_keys(Tail(pats),
                   IF \E k \in DOMAIN seen : seen[k] = Head(pats) THEN seen
                   ELSE Append(seen, Head(pats)))

\* found_count, comparisons = algo_func(text, keyword): the two names are
\* bound to the keys of the dictionary, which must be two.
ValueErrorNotEnough(n) ==
    [type |-> "ValueError",
     message |-> IF n = 0 THEN "not enough values to unpack (expected 2, got 0)"
                 ELSE "not enough values to unpack (expected 2, got 1)"]
ValueErrorTooMany ==
    [type |-> "ValueError", message |-> "too many values to unpack (expected 2)"]
unpack(outcome, keys) ==
    IF is_raised(outcome) THEN outcome
    ELSE IF Len(keys) < 2 THEN Raised(ValueErrorNotEnough(Len(keys)))
    ELSE IF Len(keys) > 2 THEN Raised(ValueErrorTooMany)
    ELSE Returned([found_count |-> keys[1], comparisons |-> keys[2]])
unpacked(name, t, p) == unpack(ALGORITHMS(name, t, p), dict_keys(chars(p), <<>>))

\* ------------------------------------------------------------ scores
(***************************************************************************)
(* A score is a Python float, an IEEE-754 double.  The scores of this      *)
(* program are never negative, so a double is kept as [m, e], the value    *)
(* m * 2^e with 2^52 <= m < 2^53, and 0.0 as m = 0, e = 0.  The mantissa   *)
(* is an integer of eight digits base LimbBase, lowest digit first.  Every *)
(* operation computes its exact result and rounds it to the nearest        *)
(* double, ties to the even mantissa, as the hardware does.                *)
(***************************************************************************)
bn_idx == 1..8
bn_zero == [k \in bn_idx |-> 0]

RECURSIVE bn_carry_from(_, _, _)
bn_carry_from(d, k, carry) ==
    IF k > 8 THEN <<>>
    ELSE <<(d[k] + carry) % LimbBase>>
             \o bn_carry_from(d, k + 1, (d[k] + carry) \div LimbBase)
bn_carry(d) == bn_carry_from(d, 1, 0)

bn_of(n) == bn_carry([k \in bn_idx |-> IF k = 1 THEN n ELSE 0])
bn_add(x, y) == bn_carry([k \in bn_idx |-> x[k] + y[k]])
\* x - y for x >= y
bn_sub(x, y) ==
    bn_carry([k \in bn_idx |-> x[k] - y[k] + (IF k < 8 THEN LimbBase ELSE 0)
                                           - (IF k > 1 THEN 1 ELSE 0)])
bn_less(x, y) ==
    LET diff == {k \in bn_idx : x[k] # y[k]}
    IN  /\ diff # {}
        /\ LET top == CHOOSE k \in diff : \A j \in diff : j <= k
           IN  x[top] < y[top]
\* x * n for a digit n
bn_mul_digit(x, n) == bn_carry([k \in bn_idx |-> x[k] * n])
bn_shl_limbs(x, n) == [k \in bn_idx |-> IF k > n THEN x[k - n] ELSE 0]
bn_shr_limbs(x, n) == [k \in bn_idx |-> IF k + n <= 8 THEN x[k + n] ELSE 0]
\* x * 2^b, floor(x / 2^b), x mod 2^b
bn_shl(x, b) == bn_shl_limbs(bn_mul_digit(x, 2 ^ (b % 15)), b \div 15)
bn_shr(x, b) ==
    LET y == bn_shr_limbs(x, b \div 15)
        r == b % 15
    IN  [k \in bn_idx |-> (y[k] \div (2 ^ r))
                            + (IF k < 8 THEN (y[k + 1] % (2 ^ r)) * (2 ^ (15 - r)) ELSE 0)]
bn_low(x, b) ==
    [k \in bn_idx |-> IF k <= b \div 15 THEN x[k]
                       ELSE IF k = b \div 15 + 1 THEN x[k] % (2 ^ (b % 15))
                       ELSE 0]
\* x * y for y below 2^60
bn_mul(x, y) ==
    bn_add(bn_add(bn_mul_digit(x, y[1]), bn_shl_limbs(bn_mul_digit(x, y[2]), 1)),
           bn_add(bn_shl_limbs(bn_mul_digit(x, y[3]), 2),
                  bn_shl_limbs(bn_mul_digit(x, y[4]), 3)))
\* the number of bits of x, and the number of zero bits at its low end
bn_bits(x) ==
    LET nz == {k \in bn_idx : x[k] # 0}
    IN  IF nz = {} THEN 0
        ELSE LET top == CHOOSE k \in nz : \A j \in nz : j <= k
             IN  15 * (top - 1) + (CHOOSE n \in 1..15 : 2 ^ (n - 1) <= x[top] /\ x[top] < 2 ^ n)
bn_low_zeros(x) ==
    LET nz == {k \in bn_idx : x[k] # 0}
        low == CHOOSE k \in nz : \A j \in nz : k <= j
    IN  15 * (low - 1) + (CHOOSE n \in 0..14 : x[low] % (2 ^ n) = 0 /\ x[low] % (2 ^ (n + 1)) # 0)
\* x divided by a digit d, from the highest digit down
RECURSIVE bn_div_digit(_, _, _, _)
bn_div_digit(x, d, k, acc) ==
    IF k = 0 THEN acc
    ELSE bn_div_digit(x, d, k - 1,
                      [q |-> [acc.q EXCEPT ![k] = (acc.r * LimbBase + x[k]) \div d],
                       r |-> (acc.r * LimbBase + x[k]) % d])
fzero == [m |-> bn_zero, e |-> 0]
\* the double nearest to (n + rest) * 2^e, where 0 < rest < 1 if sticky and
\* rest = 0 otherwise; n has at least 55 bits when sticky.  normalised takes
\* a mantissa of 53 or 54 bits, rounded_up the quotient q and the remainder
\* r of n by 2^sh with half = 2^(sh - 1).
normalised(q1, e) ==
    IF bn_bits(q1) = 54 THEN [m |-> bn_shr(q1, 1), e |-> e + 1] ELSE [m |-> q1, e |-> e]
rounded_up(q, r, half, sticky) ==
    IF bn_less(half, r) \/ (r = half /\ (sticky \/ q[1] % 2 = 1))
    THEN bn_add(q, bn_of(1)) ELSE q
fround_bits(n, e, sticky, len) ==
    IF len = 0 THEN fzero
    ELSE IF len <= 53 THEN [m |-> bn_shl(n, 53 - len), e |-> e - (53 - len)]
    ELSE normalised(rounded_up(bn_shr(n, len - 53), bn_low(n, len - 53),
                               bn_shl(bn_of(1), len - 54), sticky),
                    e + (len - 53))
fround(n, e, sticky) == fround_bits(n, e, sticky, bn_bits(n))

\* float(k) for an int k >= 0
fint(k) == fround(bn_of(k), 0, FALSE)
fadd_ordered(hi, lo) ==
    IF hi.e - lo.e > 60 THEN hi
    ELSE fround(bn_add(bn_shl(hi.m, hi.e - lo.e), lo.m), lo.e, FALSE)
fadd(x, y) ==
    IF x = fzero THEN y
    ELSE IF y = fzero THEN x
    ELSE IF x.e >= y.e THEN fadd_ordered(x, y) ELSE fadd_ordered(y, x)
\* x - y for x >= y
fsub(x, y) ==
    IF y = fzero THEN x
    ELSE IF x.e - y.e > 60 THEN x
    ELSE fround(bn_sub(bn_shl(x.m, x.e - y.e), y.m), y.e, FALSE)
fmul(x, y) == fround(bn_mul(x.m, y.m), x.e + y.e, FALSE)
\* x / y for a y that is a whole number below LimbBase times a power of two,
\* as len(...) and 100.0 are
fdiv_rounded(d, e) == fround(d.q, e, d.r # 0)
fdiv_odd(x, y, tz) ==
    fdiv_rounded(bn_div_digit(bn_shl(x.m, 30), bn_shr(y.m, tz)[1], 8,
                              [q |-> bn_zero, r |-> 0]),
                 x.e - 30 - y.e - tz)
fdiv(x, y) == IF x = fzero THEN fzero ELSE fdiv_odd(x, y, bn_low_zeros(y.m))
fless(x, y) ==
    IF x = fzero THEN y # fzero
    ELSE IF y = fzero THEN FALSE
    ELSE x.e < y.e \/ (x.e = y.e /\ bn_less(x.m, y.m))
fleq(x, y) == x = y \/ fless(x, y)

\* the literals 0.70 and 0.30: the doubles nearest to 7/10 and 3/10
MANDATORY_WEIGHT == fdiv(fint(70), fint(100))
PREFERRED_WEIGHT == fdiv(fint(30), fint(100))

\* ------------------------------------------------------------ strings, None
\* None, which is no string; `not text` holds of None and of "".
None == <<-1>>
falsy(t) == t = None \/ t = <<>>

\* s < t for two strings, as Python compares them: by code point, a proper
\* prefix first.
RECURSIVE str_less(_, _)
str_less(s, t) ==
    IF t = <<>> THEN FALSE
    ELSE IF s = <<>> THEN TRUE
    ELSE IF Head(s) # Head(t) THEN Head(s) < Head(t)
    ELSE str_less(Tail(s), Tail(t))

\* sorted(list(S)) for a set S of strings.
RECURSIVE sorted_strings(_)
sorted_strings(S) ==
    IF S = {} THEN <<>>
    ELSE LET least == CHOOSE x \in S : \A y \in S \ {x} : str_less(x, y)
         IN  <<least>> \o sorted_strings(S \ {least})

\* ------------------------------------------------------------ run_analysis
\* The scoring of one pass of run_analysis, from the two counters: the two
\* ratios, their weighted sum, and the penalty on a missed mandatory keyword.
weighted_scoring(matched_mandatory, matched_preferred, mand, pref, penalty_percent) ==
    LET penalised == matched_mandatory < Cardinality(mand)
        penalty_multiplier == fsub(fint(1), fdiv(fint(penalty_percent), fint(100)))
        final(score_mand, score_pref, weighted_score) ==
            [matched_mandatory |-> matched_mandatory,
             matched_preferred |-> matched_preferred,
             score_mand |-> score_mand, score_pref |-> score_pref,
             weighted_score |-> weighted_score, penalised |-> penalised,
             final_score |-> IF penalised THEN fmul(weighted_score, penalty_multiplier)
                             ELSE weighted_score]
        weighted(score_mand, score_pref) ==
            final(score_mand, score_pref,
                  fadd(fmul(score_mand, MANDATORY_WEIGHT),
                       fmul(score_pref, PREFERRED_WEIGHT)))
    IN  weighted(IF mand # {}
                 THEN fmul(fdiv(fint(matched_mandatory), fint(Cardinality(mand))), fint(100))
                 ELSE fint(100),
                 IF pref # {}
                 THEN fmul(fdiv(fint(matched_preferred), fint(Cardinality(pref))), fint(100))
                 ELSE fint(100))

\* The counters of one pass before its loop over keywords, the keywords yet
\* to be looked for.
NoCounts(keywords) ==
    [keywords |-> keywords, matched |-> <<>>, missing |-> <<>>, matched_mandatory |-> 0,
     matched_preferred |-> 0, total_comparisons |-> 0]

\* An int and a str do not add, and do not compare.
TypeErrorAdd ==
    [type |-> "TypeError", message |-> "unsupported operand type(s) for +=: 'int' and 'str'"]
TypeErrorGreater ==
    [type |-> "TypeError",
     message |-> "'>' not supported between instances of 'str' and 'int'"]

\* One iteration of the loop over all_keywords_list, on the first keyword
\* yet to be looked for: the call and its unpacking, and then
\* total_comparisons += comparisons, total_comparisons being an int and
\* comparisons a key of the dictionary, a str.
added(r) == IF is_raised(r) THEN r ELSE Raised(TypeErrorAdd)
keyword_iteration(algo_name, cv_text_to_search, is_case_sensitive, mand, pref, acc) ==
    added(unpacked(algo_name, cv_text_to_search,
                   IF is_case_sensitive THEN Head(acc.keywords)
                   ELSE lower(Head(acc.keywords))))

\* The loop over all_keywords_list of one pass (one algorithm) of
\* run_analysis: an exception leaves it.
RECURSIVE keyword_loop(_, _, _, _, _, _)
keyword_loop_after(algo_name, cv_text_to_search, is_case_sensitive, mand, pref, r) ==
    IF is_raised(r) THEN r
    ELSE keyword_loop(algo_name, cv_text_to_search, is_case_sensitive, mand, pref,
                      r.returned)
keyword_loop(algo_name, cv_text_to_search, is_case_sensitive, mand, pref, acc) ==
    IF acc.keywords = <<>> THEN Returned(acc)
    ELSE keyword_loop_after(algo_name, cv_text_to_search, is_case_sensitive, mand, pref,
                            keyword_iteration(algo_name, cv_text_to_search,
                                              is_case_sensitive, mand, pref, acc))

\* What a pass appends to performance_data (the times left out), and its
\* locals, from the counters c of its loop and their scoring sc.
pass_result(algo_name, c, sc) ==
    [entry |-> [name |-> algo_name, comparisons |-> c.total_comparisons,
                score |-> sc.final_score, matched |-> c.matched, missing |-> c.missing],
     locals |-> sc]
pass_scored(algo_name, c) ==
    pass_result(algo_name, c,
                weighted_scoring(c.matched_mandatory, c.matched_preferred,
                                 mandatory_keywords, preferred_keywords, penalty_var))

\* One pass of the loop over ALGORITHMS.
pass_after(algo_name, c) ==
    IF is_raised(c) THEN c ELSE Returned(pass_scored(algo_name, c.returned))
analysis_pass(algo_name, cv_text_to_search) ==
    pass_after(algo_name,
               keyword_loop(algo_name, cv_text_to_search, case_sensitive_var,
                            mandatory_keywords, preferred_keywords,
                            NoCounts(all_keywords_list)))

\* The loop over ALGORITHMS, in the dictionary's order, on the text prepared
\* before it: s holds the passes made so far, which an exception leaves
\* behind it.
RECURSIVE analysis_loop(_, _)
analysis_loop_after(cv_text_to_search, s, r) ==
    IF is_raised(r) THEN [raised |-> r.raised, passes |-> s]
    ELSE analysis_loop(cv_text_to_search, Append(s, r.returned))
analysis_loop(cv_text_to_search, s) ==
    IF Len(s) = Len(AlgoNames) THEN [returned |-> s, passes |-> s]
    ELSE analysis_loop_after(cv_text_to_search, s,
                             analysis_pass(AlgoNames[Len(s) + 1], cv_text_to_search))
analysis_passes ==
    analysis_loop(IF case_sensitive_var THEN cv_text_content ELSE lower(cv_text_content),
                  <<>>)

\* ------------------------------------------------------------ the batch
\* The scoring of one document by the worker, from the two counters.
cv_scoring(matched_mandatory, matched_preferred, mand, pref, penalty_value) ==
    LET penalised == matched_mandatory < Cardinality(mand)
        penalty_multiplier == fsub(fint(1), fdiv(fint(penalty_value), fint(100)))
        final(score_mand, score_pref, cv_score) ==
            [matched_mandatory |-> matched_mandatory,
             matched_preferred |-> matched_preferred,
             score_mand |-> score_mand, score_pref |-> score_pref,
             weighted_score |-> cv_score, penalised |-> penalised,
             final_score |-> IF penalised THEN fmul(cv_score, penalty_multiplier)
                             ELSE cv_score]
        weighted(score_mand, score_pref) ==
            final(score_mand, score_pref,
                  fadd(fmul(score_mand, MANDATORY_WEIGHT),
                       fmul(score_pref, PREFERRED_WEIGHT)))
    IN  weighted(IF mand # {}
                 THEN fmul(fdiv(fint(matched_mandatory), fint(Cardinality(mand))), fint(100))
                 ELSE fint(100),
                 IF pref # {}
                 THEN fmul(fdiv(fint(matched_preferred), fint(Cardinality(pref))), fint(100))
                 ELSE fint(100))

\* The orders in which a loop may meet the members of the set S.
Orders(S) ==
    {o \in [1..Cardinality(S) -> S] : \A i, j \in 1..Cardinality(S) : o[i] = o[j] => i = j}

\* The worker's loop over scoring_keywords = mandatory | preferred with the
\* KMP entry of the table, the set met in the order given.  One iteration is
\* the call and its unpacking, and then found_count > 0, found_count being a
\* key of the dictionary, a str.
compared(r) == IF is_raised(r) THEN r ELSE Raised(TypeErrorGreater)
RECURSIVE cv_counts(_, _, _, _)
cv_counts(text_to_search, order, case_sensitive, acc) ==
    IF order = <<>> THEN Returned(acc)
    ELSE compared(unpacked("Knuth-Morris-Pratt (KMP)", text_to_search,
                           IF case_sensitive THEN Head(order) ELSE lower(Head(order))))

\* total_comparisons of one algorithm over all_keywords for one document:
\* the call and its unpacking, and then total_comparisons += comps.
RECURSIVE total_comparisons(_, _, _, _, _)
total_comparisons(algo_name, text_to_search, keywords, case_sensitive, total) ==
    IF keywords = <<>> THEN Returned(total)
    ELSE added(unpacked(algo_name, text_to_search,
                        IF case_sensitive THEN Head(keywords) ELSE lower(Head(keywords))))

\* sorted(data, key=score, reverse=True): Python's sort is stable, also when
\* reversed, so x goes behind every row whose score is not below its own.
RECURSIVE insert_by_score(_, _)
insert_by_score(rows, x) ==
    IF rows = <<>> THEN <<x>>
    ELSE IF fleq(x.score, Head(rows).score)
         THEN <<Head(rows)>> \o insert_by_score(Tail(rows), x)
         ELSE <<x>> \o rows

RECURSIVE sorted_by_score(_, _)
sorted_by_score(data, rows) ==
    IF data = <<>> THEN rows
    ELSE sorted_by_score(Tail(data), insert_by_score(rows, Head(data)))

\* f"{score:.2f}": the score in hundredths, rounded half to even.
format_2f(score) ==
    IF score = fzero \/ score.e < -100 THEN 0
    ELSE LET n == bn_mul_digit(score.m, 100)
             q == bn_shr(n, -score.e)
             r == bn_low(n, -score.e)
             half == bn_shl(bn_of(1), -score.e - 1)
             up == bn_less(half, r) \/ (r = half /\ q[1] % 2 = 1)
         IN  q[1] + q[2] * LimbBase + (IF up THEN 1 ELSE 0)

\* update_batch_results_tab: the rows of the table, best score first.
RECURSIVE table_rows(_)
table_rows(sorted_data) ==
    IF sorted_data = <<>> THEN <<>>
    ELSE <<[cv_name |-> Head(sorted_data).cv_name,
            score |-> format_2f(Head(sorted_data).score)]>> \o table_rows(Tail(sorted_data))

update_batch_results_tab(data) == table_rows(sorted_by_score(data, <<>>))

\* ------------------------------------------------------------ handlers
\* The score label before any score is shown.
NoScore == [shown |-> FALSE]
AlgoSet == {AlgoNames[k] : k \in 1..3}

WorkerIdle ==
    [pc |-> "idle", mandatory_keywords |-> {}, preferred_keywords |-> {},
     all_keywords |-> <<>>, penalty_value |-> 0, case_sensitive |-> FALSE,
     unique_names |-> <<>>, text_to_search |-> <<>>, locals |-> <<>>, algo |-> 0,
     json_entry |-> <<>>, batch_ui_data |-> <<>>, json_report_data |-> <<>>,
     agg_performance |-> ("Brute Force" :> 0) @@ ("Rabin-Karp" :> 0)
                         @@ ("Knuth-Morris-Pratt (KMP)" :> 0)]

\* The folder of the CVs and the file of the report, as the worker joins
\* them: "data/cvs" and "data/cv_batch_report.json".
CvsDir == <<100, 97, 116, 97, 47, 99, 118, 115>>
path_join(dir, f) == dir \o <<47>> \o f
PdfSuffix == <<46, 112, 100, 102>>
DocxSuffix == <<46, 100, 111, 99, 120>>

\* s.endswith(suffix).
endswith(s, suffix) ==
    Len(s) >= Len(suffix) /\ SubSeq(s, Len(s) - Len(suffix) + 1, Len(s)) = suffix

\* os.path.splitext(f)[0] for a file name f: f up to its last dot, and all
\* of f when it has no dot or nothing but dots stands before the last one.
splitext_root(f) ==
    LET dots == {k \in DOMAIN f : f[k] = 46}
        dotIndex == CHOOSE k \in dots : \A j \in dots : j <= k
    IN  IF dots = {} THEN f
        ELSE IF \A k \in 1..(dotIndex - 1) : f[k] = 46 THEN f
        ELSE SubSeq(f, 1, dotIndex - 1)

\* os.path.basename(p): what stands behind the last slash of p.
basename(p) ==
    LET slashes == {k \in DOMAIN p : p[k] = 47}
    IN  IF slashes = {} THEN p
        ELSE SubSeq(p, (CHOOSE k \in slashes : \A j \in slashes : j <= k) + 1, Len(p))

\* What stands at the path of the report: nothing yet, a directory, or the
\* report a worker has written.
NoReport == [kind |-> "none", data |-> <<>>]
ReportIsDirectory == [kind |-> "directory", data |-> <<>>]
written_report(json_report_data) == [kind |-> "file", data |-> json_report_data]
IsADirectoryError == "[Errno 21] Is a directory: 'data/cv_batch_report.json'"

\* A modal box of tkinter.messagebox, opened by handler: the handler waits
\* in the call until the box is closed, and meanwhile the main loop serves
\* timers, and no widget of the main window.
box(handler, kind, title, message) ==
    [handler |-> handler, kind |-> kind, title |-> title, message |-> message]
top_box == messagebox[Len(messagebox)]
closed_box == SubSeq(messagebox, 1, Len(messagebox) - 1)
open_boxes_of(handler) == {k \in DOMAIN messagebox : messagebox[k].handler = handler}

\* The variables in groups, as the handlers leave them alone.
jobVars == <<selected_job, mandatory_keywords, preferred_keywords, all_keywords_list>>
cvVars == <<cv_filepath, cv_text_content>>
optionVars == <<penalty_var, case_sensitive_var>>
analysisVars == <<performance_data, score_label, frame>>
buttonVars == <<analyze_button, batch_button>>
threadVars == <<batch_thread, active_workers, worker>>
shownVars == <<batch_results_data, batch_performance_data, batch_summary_cvs>>
tableVars == <<batch_table, heading_reverse>>
diskVars == <<cvs_dir, job_descriptions, report_file, single_report>>

\* Every behaviour is followed for a bounded number of inputs of the user: a
\* selection, a click on a button, on the slider, on a check box or on a
\* heading takes one of those left.  Closing a box or answering a dialog takes
\* none, nor does a step of the worker thread or of the queue poll.
input_taken ==
    /\ inputs_left > 0
    /\ inputs_left' = inputs_left - 1

\* ------------------------------------------------------------ load_job_keywords
JobTitles == {"Data Scientist", "Computer Vision Engineer",
              "Senior AI/ML Engineer (Agentic AI)"}

\* What stands at the path of a job description: nothing, a file that holds
\* no JSON (an empty file), or a JSON object.  A value of the object is a list
\* of strings, held as the set of its members, or a number.
MissingFile == [kind |-> "missing"]
EmptyFile == [kind |-> "empty"]
json_list(members) == [kind |-> "list", members |-> members]
json_number(n) == [kind |-> "number", number |-> n]
json_object(required, preferred, tools) ==
    [kind |-> "json", required_skills |-> required, preferred_skills |-> preferred,
     tools_and_frameworks |-> tools]
\* The file of a job description data whose three lists are as they should be.
job_json(data) ==
    json_object(json_list(data.required_skills), json_list(data.preferred_skills),
                json_list(data.tools_and_frameworks))

\* set(value) for a value of the JSON object.
TypeErrorNotIterable == [type |-> "TypeError", message |-> "'int' object is not iterable"]
set_of(value) ==
    IF value.kind = "list" THEN Returned(value.members) ELSE Raised(TypeErrorNotIterable)

\* The boxes of load_job_keywords for the file behind title.
file_not_found_error(title) ==
    CASE title = "Data Scientist" ->
             "Job description file not found:\ndata/job_descriptions/data_scientist.json"
      [] title = "Computer Vision Engineer" ->
             "Job description file not found:\ndata/job_descriptions/computer_vision_engineer.json"
      [] title = "Senior AI/ML Engineer (Agentic AI)" ->
             "Job description file not found:\ndata/job_descriptions/agentic_ai_engineer.json"
no_keywords_warning(title) ==
    CASE title = "Data Scientist" ->
             "No keywords found in 'data/job_descriptions/data_scientist.json'."
      [] title = "Computer Vision Engineer" ->
             "No keywords found in 'data/job_descriptions/computer_vision_engineer.json'."
      [] title = "Senior AI/ML Engineer (Agentic AI)" ->
             "No keywords found in 'data/job_descriptions/agentic_ai_engineer.json'."
load_failed(message) ==
    CASE message = "Expecting value: line 1 column 1 (char 0)" ->
             "Failed to load job description from JSON:\nExpecting value: line 1 column 1 (char 0)"
      [] message = "'int' object is not iterable" ->
             "Failed to load job description from JSON:\n'int' object is not iterable"

\* The try block of load_job_keywords on the JSON object file: the
\* attributes it has assigned, in the order of the assignments, and the box
\* it ends in, if any.  An exception of set(...) leaves the attributes
\* assigned before it as they are and those after it untouched.
loaded_keywords(title, file) ==
    LET kept == [mandatory_keywords |-> mandatory_keywords,
                 preferred_keywords |-> preferred_keywords,
                 all_keywords_list |-> all_keywords_list, boxes |-> <<>>]
        failed(now, e) ==
            [now EXCEPT !.boxes = <<box("load_job_keywords", "showerror", "Error",
                                        load_failed(e.message))>>]
        third(now, tools) ==
            IF is_raised(tools) THEN failed(now, tools.raised)
            ELSE LET all_keywords_set == now.mandatory_keywords \cup now.preferred_keywords
                                             \cup tools.returned
                 IN  [now EXCEPT
                         !.all_keywords_list = sorted_strings(all_keywords_set),
                         !.boxes = IF all_keywords_set = {}
                                   THEN <<box("load_job_keywords", "showwarning", "Warning",
                                              no_keywords_warning(title))>>
                                   ELSE <<>>]
        second(now, preferred) ==
            IF is_raised(preferred) THEN failed(now, preferred.raised)
            ELSE third([now EXCEPT !.preferred_keywords = preferred.returned],
                       set_of(file.tools_and_frameworks))
        first(required) ==
            IF is_raised(required) THEN failed(kept, required.raised)
            ELSE second([kept EXCEPT !.mandatory_keywords = required.returned],
                        set_of(file.preferred_skills))
    IN  first(set_of(file.required_skills))

\* A title is picked in the selection box, which is read-only, and
\* load_job_keywords runs on it, in app.py and in main.py alike.  A file that
\* is not there opens an error box and leaves the keywords of the job before;
\* a file json.load cannot read opens the error box of the except clause;
\* else the three attributes are assigned one after the other, and a file
\* without any keyword ends in a warning.  The box offers the three titles of
\* filename_map and no other, so the handler's tests for no title and for a
\* title without a file name never succeed.
LoadJobKeywords(title) ==
    /\ mpc \in {"app", "main"}
    /\ messagebox = <<>>
    /\ input_taken
    /\ selected_job' = title
    /\ \E file \in {job_descriptions[title]} :
           IF file.kind = "missing"
           THEN /\ messagebox' = <<box("load_job_keywords", "showerror", "Error",
                                       file_not_found_error(title))>>
                /\ UNCHANGED <<mandatory_keywords, preferred_keywords, all_keywords_list>>
           ELSE IF file.kind = "empty"
           THEN /\ messagebox' = <<box("load_job_keywords", "showerror", "Error",
                                       load_failed("Expecting value: line 1 column 1 (char 0)"))>>
                /\ UNCHANGED <<mandatory_keywords, preferred_keywords, all_keywords_list>>
           ELSE \E loaded \in {loaded_keywords(title, file)} :
                    /\ mandatory_keywords' = loaded.mandatory_keywords
                    /\ preferred_keywords' = loaded.preferred_keywords
                    /\ all_keywords_list' = loaded.all_keywords_list
                    /\ messagebox' = loaded.boxes
    /\ UNCHANGED <<cvVars, optionVars, analysisVars, status_label, buttonVars,
                   export_button, threadVars, batch_queue, shownVars, tableVars,
                   diskVars>>
    /\ UNCHANGED matchVars

\* ------------------------------------------------------------ load_cv, the options
\* The 'Load CV File' button, the file dialog answering with the file f of
\* the folder of the CVs.  The path is kept and the text is that of the
\* extraction the ending of the path selects, the ending compared as it is
\* written; any other ending leaves the empty text and warns.  A text that
\* was read disables the export button.  main.py's load_cv is the same text.
LoadCV(f) ==
    /\ mpc \in {"app", "main"}
    /\ messagebox = <<>>
    /\ input_taken
    /\ cvs_dir.exists /\ f \in DOMAIN cvs_dir.files
    /\ \E filepath \in {path_join(CvsDir, f)} :
           /\ cv_filepath' = filepath
           /\ IF endswith(filepath, PdfSuffix) \/ endswith(filepath, DocxSuffix)
              THEN /\ cv_text_content' = cvs_dir.files[f]
                   /\ export_button' = IF falsy(cvs_dir.files[f]) THEN export_button
                                       ELSE "disabled"
                   /\ UNCHANGED messagebox
              ELSE /\ cv_text_content' = <<>>
                   /\ messagebox' = <<box("load_cv", "showwarning", "Warning",
                                          "Unknown file type.")>>
                   /\ UNCHANGED export_button
    /\ UNCHANGED <<jobVars, optionVars, analysisVars, status_label, buttonVars,
                   threadVars, batch_queue, shownVars, tableVars, diskVars>>
    /\ UNCHANGED matchVars

\* The box of a handler that returns as soon as its box is closed
\* (load_job_keywords, load_cv, start_batch_analysis_thread, and
\* export_single_report after its dialog) is closed.
MessageboxClosed ==
    /\ mpc \in {"app", "main"}
    /\ messagebox # <<>>
    /\ top_box.handler \in {"load_job_keywords", "load_cv", "start_batch_analysis_thread",
                            "export_single_report"}
    /\ top_box.kind # "asksaveasfilename"
    /\ messagebox' = closed_box
    /\ UNCHANGED <<jobVars, cvVars, optionVars, analysisVars, status_label, buttonVars,
                   export_button, threadVars, batch_queue, shownVars, tableVars,
                   diskVars, inputs_left>>
    /\ UNCHANGED matchVars

\* The penalty slider of app.py is moved to penalty.
MovePenaltySlider(penalty) ==
    /\ mpc = "app"
    /\ messagebox = <<>>
    /\ input_taken
    /\ penalty_var # penalty
    /\ penalty_var' = penalty
    /\ UNCHANGED <<jobVars, cvVars, case_sensitive_var, analysisVars, status_label,
                   buttonVars, export_button, threadVars, batch_queue, shownVars,
                   tableVars, diskVars, messagebox>>
    /\ UNCHANGED matchVars

\* The 'Case-Sensitive Search' box is ticked or unticked, in app.py and in
\* main.py: the box is bound to case_sensitive_var and has no command.
ToggleCaseSensitive ==
    /\ mpc \in {"app", "main"}
    /\ messagebox = <<>>
    /\ input_taken
    /\ case_sensitive_var' = ~case_sensitive_var
    /\ UNCHANGED <<jobVars, cvVars, penalty_var, analysisVars, status_label,
                   buttonVars, export_button, threadVars, batch_queue, shownVars,
                   tableVars, diskVars, messagebox>>
    /\ UNCHANGED matchVars

\* ------------------------------------------------------------ sort_treeview_column
\* The headings of the batch table as constructed: a click on 'CV Name'
\* sorts upwards, a click on 'Score' downwards.
Columns == {"CV Name", "Score"}
HeadingsAsBuilt == ("CV Name" :> FALSE) @@ ("Score" :> TRUE)

\* float(value) for the cell of a row under col.  A score is shown with two
\* decimals and always reads as a number: the rows hold it in hundredths.  A
\* name reads as a number when it is made of decimal digits; every other
\* name here raises ValueError (no name of the folders below is a number
\* written otherwise, as 1e3 or inf).
is_digits(s) == s # <<>> /\ \A k \in DOMAIN s : s[k] \in 48..57
RECURSIVE decimal_value(_, _)
decimal_value(s, n) ==
    IF s = <<>> THEN n ELSE decimal_value(Tail(s), 10 * n + (Head(s) - 48))
floats(rows, col) ==
    col = "Score" \/ \A k \in DOMAIN rows : is_digits(rows[k].cv_name)
\* key(a) < key(b) under the key of the sort: the float, or the string when
\* a float() has raised.
key_less(a, b, col, by_float) ==
    IF col = "Score" THEN a.score < b.score
    ELSE IF by_float THEN decimal_value(a.cv_name, 0) < decimal_value(b.cv_name, 0)
    ELSE str_less(a.cv_name, b.cv_name)

\* l.sort(key=..., reverse=reverse): the sort is stable, also when reversed,
\* so x goes behind every row that may not stand behind it.
RECURSIVE insert_row(_, _, _, _, _)
insert_row(rows, x, col, by_float, reverse) ==
    IF rows = <<>> THEN <<x>>
    ELSE IF (IF reverse THEN key_less(Head(rows), x, col, by_float)
             ELSE key_less(x, Head(rows), col, by_float))
         THEN <<x>> \o rows
         ELSE <<Head(rows)>> \o insert_row(Tail(rows), x, col, by_float, reverse)
RECURSIVE sorted_rows(_, _, _, _, _)
sorted_rows(l, rows, col, by_float, reverse) ==
    IF l = <<>> THEN rows
    ELSE sorted_rows(Tail(l), insert_row(rows, Head(l), col, by_float, reverse),
                     col, by_float, reverse)

\* A click on the heading col of the batch table: the rows are moved into
\* the order of the sort, and the heading is bound to the opposite order.
SortTreeviewColumn(col) ==
    /\ mpc \in {"app", "main"}
    /\ messagebox = <<>>
    /\ input_taken
    /\ batch_table' = sorted_rows(batch_table, <<>>, col, floats(batch_table, col),
                                  heading_reverse[col])
    /\ heading_reverse' = [heading_reverse EXCEPT ![col] = ~@]
    /\ UNCHANGED <<jobVars, cvVars, optionVars, analysisVars, status_label, buttonVars,
                   export_button, threadVars, batch_queue, shownVars, diskVars,
                   messagebox>>
    /\ UNCHANGED matchVars

\* ------------------------------------------------------------ run_analysis
\* The box of a validation of run_analysis.
rejection(message) == box("run_analysis", "showerror", "Error", message)

\* run_analysis without its first validation.
RunAnalysis_unvalidated ==
    /\ mpc = "app"
    /\ analyze_button = "normal"
    /\ messagebox = <<>>
    /\ input_taken
    /\ IF cv_filepath = <<>> \/ falsy(cv_text_content)
       THEN /\ status_label' = "Analyzing..."
            /\ messagebox' = <<rejection(IF cv_filepath = <<>>
                                         THEN "Please load a CV file first."
                                         ELSE "Could not read text from CV.")>>
            /\ UNCHANGED <<performance_data, score_label, frame, export_button>>
       ELSE \E outcome \in {analysis_passes} :
                /\ UNCHANGED messagebox
                /\ performance_data' = [k \in DOMAIN outcome.passes |->
                                            outcome.passes[k].entry]
                /\ frame' = [k \in DOMAIN outcome.passes |-> outcome.passes[k].locals]
                /\ IF is_raised(outcome)
                   THEN /\ status_label' = "Analyzing..."
                        /\ UNCHANGED <<score_label, export_button>>
                   ELSE /\ status_label' = "Analysis complete. Ready."
                        /\ score_label' = outcome.passes[3].entry.score
                        /\ export_button' = "normal"
    /\ UNCHANGED <<jobVars, cvVars, optionVars, buttonVars, threadVars, batch_queue,
                   shownVars, tableVars, diskVars>>
    /\ UNCHANGED matchVars

\* The 'Analyze CV' button of app.py, up to the box of a validation or to
\* its end.  The status is set to "Analyzing..." first.  A validation that
\* fails opens its box before anything is computed, and the handler waits in
\* it; else performance_data is cleared and the three algorithms run in turn.
\* An exception leaves the handler where it is raised: the status stays at
\* "Analyzing..." and neither the score label nor the export button is
\* touched.  The export button is enabled in the last lines of the handler
\* and nowhere else; it is constructed disabled, and a disabled button calls
\* no command: export_single_report of app.py runs only after a run_analysis
\* of app.py has come to its end.
RunAnalysis ==
    /\ mpc = "app"
    /\ analyze_button = "normal"
    /\ messagebox = <<>>
    /\ input_taken
    /\ IF selected_job = "" \/ all_keywords_list = <<>>
          \/ cv_filepath = <<>> \/ falsy(cv_text_content)
       THEN /\ status_label' = "Analyzing..."
            /\ messagebox' = <<rejection(IF selected_job = "" \/ all_keywords_list = <<>>
                                         THEN "Please select a job position first."
                                         ELSE IF cv_filepath = <<>>
                                         THEN "Please load a CV file first."
                                         ELSE "Could not read text from CV.")>>
            /\ UNCHANGED <<performance_data, score_label, frame, export_button>>
       ELSE \E outcome \in {analysis_passes} :
                /\ UNCHANGED messagebox
                /\ performance_data' = [k \in DOMAIN outcome.passes |->
                                            outcome.passes[k].entry]
                /\ frame' = [k \in DOMAIN outcome.passes |-> outcome.passes[k].locals]
                /\ IF is_raised(outcome)
                   THEN /\ status_label' = "Analyzing..."
                        /\ UNCHANGED <<score_label, export_button>>
                   ELSE /\ status_label' = "Analysis complete. Ready."
                        /\ score_label' = outcome.passes[3].entry.score
                        /\ export_button' = "normal"
    /\ UNCHANGED <<jobVars, cvVars, optionVars, buttonVars, threadVars, batch_queue,
                   shownVars, tableVars, diskVars>>
    /\ UNCHANGED matchVars

\* The box of a validation is closed: run_analysis sets the status and
\* returns.  main.py's run_analysis is the same text up to here.
RunAnalysisReturn ==
    /\ mpc \in {"app", "main"}
    /\ messagebox # <<>>
    /\ top_box.handler = "run_analysis"
    /\ status_label' = "Error. Ready."
    /\ messagebox' = closed_box
    /\ UNCHANGED <<jobVars, cvVars, optionVars, analysisVars, buttonVars, export_button,
                   threadVars, batch_queue, shownVars, tableVars, diskVars, inputs_left>>
    /\ UNCHANGED matchVars

\* ------------------------------------------------------------ the batch thread
\* start_batch_analysis_thread without its first test.
StartBatch_unguarded ==
    /\ mpc = "app"
    /\ batch_button = "normal"
    /\ messagebox = <<>>
    /\ input_taken
    /\ IF selected_job = "" \/ all_keywords_list = <<>>
       THEN /\ messagebox' = <<box("start_batch_analysis_thread", "showerror", "Error",
                                   "Please select a job position first.")>>
            /\ UNCHANGED <<status_label, buttonVars, threadVars>>
       ELSE /\ UNCHANGED messagebox
            /\ status_label' = "Running batch analysis... This may take a while."
            /\ batch_button' = "disabled"
            /\ analyze_button' = "disabled"
            /\ batch_thread' = "alive"
            /\ active_workers' = active_workers + 1
            /\ worker' = [WorkerIdle EXCEPT
                             !.pc = "start",
                             !.mandatory_keywords = mandatory_keywords,
                             !.preferred_keywords = preferred_keywords,
                             !.all_keywords = all_keywords_list,
                             !.penalty_value = penalty_var,
                             !.case_sensitive = case_sensitive_var]
    /\ UNCHANGED <<jobVars, cvVars, optionVars, analysisVars, export_button, batch_queue,
                   shownVars, tableVars, diskVars>>
    /\ UNCHANGED matchVars

\* The 'Run Batch Analysis' button of app.py: start_batch_analysis_thread.
\* While the thread batch_thread names is alive the handler warns and
\* returns; else, with keywords, it disables both buttons and starts a thread
\* on copies of the settings.
StartBatch ==
    /\ mpc = "app"
    /\ batch_button = "normal"
    /\ messagebox = <<>>
    /\ input_taken
    /\ IF batch_thread = "alive" \/ selected_job = "" \/ all_keywords_list = <<>>
       THEN /\ messagebox' =
                   <<IF batch_thread = "alive"
                     THEN box("start_batch_analysis_thread", "showwarning", "In Progress",
                              "Batch analysis is already running.")
                     ELSE box("start_batch_analysis_thread", "showerror", "Error",
                              "Please select a job position first.")>>
            /\ UNCHANGED <<status_label, buttonVars, threadVars>>
       ELSE /\ UNCHANGED messagebox
            /\ status_label' = "Running batch analysis... This may take a while."
            /\ batch_button' = "disabled"
            /\ analyze_button' = "disabled"
            /\ batch_thread' = "alive"
            /\ active_workers' = active_workers + 1
            /\ worker' = [WorkerIdle EXCEPT
                             !.pc = "start",
                             !.mandatory_keywords = mandatory_keywords,
                             !.preferred_keywords = preferred_keywords,
                             !.all_keywords = all_keywords_list,
                             !.penalty_value = penalty_var,
                             !.case_sensitive = case_sensitive_var]
    /\ UNCHANGED <<jobVars, cvVars, optionVars, analysisVars, export_button, batch_queue,
                   shownVars, tableVars, diskVars>>
    /\ UNCHANGED matchVars

\* What no step of the worker thread changes.
workerFrame == <<jobVars, cvVars, optionVars, analysisVars, status_label, buttonVars,
                 export_button, shownVars, tableVars, cvs_dir, job_descriptions,
                 single_report, messagebox, inputs_left>>

\* The files of data/cvs whose name in lower case ends in .pdf or .docx.
cv_files ==
    {f \in DOMAIN cvs_dir.files :
        endswith(lower(f), PdfSuffix) \/ endswith(lower(f), DocxSuffix)}
\* sorted(list(set(os.path.splitext(f)[0] for f in files))).
listed_names == sorted_strings({splitext_root(f) : f \in cv_files})

\* The worker lists the folder, in app.py and in main.py alike.  No folder,
\* or no CV file in it, raises FileNotFoundError, which the handler turns
\* into an ERROR message.
WorkerListFiles ==
    /\ mpc \in {"app", "main"}
    /\ worker.pc = "start"
    /\ IF ~cvs_dir.exists
       THEN /\ batch_queue' = Append(batch_queue,
                   [status |-> "ERROR", message |-> "CVs folder not found: data/cvs"])
            /\ worker' = [worker EXCEPT !.pc = "exit"]
       ELSE IF cv_files = {}
       THEN /\ batch_queue' = Append(batch_queue,
                   [status |-> "ERROR", message |-> "No CV files found in data/cvs"])
            /\ worker' = [worker EXCEPT !.pc = "exit"]
       ELSE /\ worker' = [worker EXCEPT
                             !.pc = "doc",
                             !.unique_names = listed_names]
            /\ UNCHANGED batch_queue
    /\ UNCHANGED <<batch_thread, active_workers, report_file, workerFrame, matchVars>>

\* The text of the document called name: that of name + ".pdf" if the
\* folder holds a file of just that name, else that of name + ".docx", else
\* None.
extracted_text(name) ==
    IF name \o PdfSuffix \in DOMAIN cvs_dir.files THEN cvs_dir.files[name \o PdfSuffix]
    ELSE IF name \o DocxSuffix \in DOMAIN cvs_dir.files
    THEN cvs_dir.files[name \o DocxSuffix]
    ELSE None

\* The head of the loop reading the settings of the main thread as they are
\* when the document is taken, not the worker's arguments.
WorkerScoreDoc_reads_live ==
    /\ mpc = "app"
    /\ worker.pc = "doc"
    /\ worker.unique_names # <<>>
    /\ \E name \in {Head(worker.unique_names)} :
       \E doc_text \in {extracted_text(name)} :
           IF falsy(doc_text)
           THEN /\ worker' = [worker EXCEPT !.unique_names = Tail(@)]
                /\ UNCHANGED batch_queue
           ELSE \E text_to_search \in {IF case_sensitive_var THEN doc_text
                                        ELSE lower(doc_text)} :
                \E order \in Orders(mandatory_keywords
                                        \cup preferred_keywords) :
                \E c \in {cv_counts(text_to_search, order, case_sensitive_var,
                                     [matched_mandatory |-> 0, matched_preferred |-> 0])} :
                    IF is_raised(c)
                    THEN /\ batch_queue' = Append(batch_queue,
                                [status |-> "ERROR", message |-> c.raised.message])
                         /\ worker' = [worker EXCEPT !.pc = "exit",
                                                     !.text_to_search = text_to_search]
                    ELSE \E sc \in {cv_scoring(c.returned.matched_mandatory,
                                               c.returned.matched_preferred,
                                               mandatory_keywords,
                                               preferred_keywords,
                                               penalty_var)} :
                         /\ worker' = [worker EXCEPT
                                  !.pc = "perf",
                                  !.algo = 1,
                                  !.text_to_search = text_to_search,
                                  !.locals = <<sc>>,
                                  !.batch_ui_data =
                                      Append(@, [cv_name |-> name, score |-> sc.final_score]),
                                  !.json_entry = <<[cv_name |-> name,
                                                    score |-> sc.final_score,
                                                    results |-> <<>>]>>]
                         /\ UNCHANGED batch_queue
    /\ UNCHANGED <<batch_thread, active_workers, report_file, workerFrame, matchVars>>

\* The head of the loop over unique_names: a document without text is
\* skipped, any other is scored and entered in batch_ui_data.  An exception
\* of the scoring loop ends the worker's try block: its text is put on the
\* queue as an ERROR message.
WorkerScoreDoc ==
    /\ mpc = "app"
    /\ worker.pc = "doc"
    /\ worker.unique_names # <<>>
    /\ \E name \in {Head(worker.unique_names)} :
       \E doc_text \in {extracted_text(name)} :
           IF falsy(doc_text)
           THEN /\ worker' = [worker EXCEPT !.unique_names = Tail(@)]
                /\ UNCHANGED batch_queue
           ELSE \E text_to_search \in {IF worker.case_sensitive THEN doc_text
                                        ELSE lower(doc_text)} :
                \E order \in Orders(worker.mandatory_keywords
                                        \cup worker.preferred_keywords) :
                \E c \in {cv_counts(text_to_search, order, worker.case_sensitive,
                                     [matched_mandatory |-> 0, matched_preferred |-> 0])} :
                    IF is_raised(c)
                    THEN /\ batch_queue' = Append(batch_queue,
                                [status |-> "ERROR", message |-> c.raised.message])
                         /\ worker' = [worker EXCEPT !.pc = "exit",
                                                     !.text_to_search = text_to_search]
                    ELSE \E sc \in {cv_scoring(c.returned.matched_mandatory,
                                               c.returned.matched_preferred,
                                               worker.mandatory_keywords,
                                               worker.preferred_keywords,
                                               worker.penalty_value)} :
                         /\ worker' = [worker EXCEPT
                                  !.pc = "perf",
                                  !.algo = 1,
                                  !.text_to_search = text_to_search,
                                  !.locals = <<sc>>,
                                  !.batch_ui_data =
                                      Append(@, [cv_name |-> name, score |-> sc.final_score]),
                                  !.json_entry = <<[cv_name |-> name,
                                                    score |-> sc.final_score,
                                                    results |-> <<>>]>>]
                         /\ UNCHANGED batch_queue
    /\ UNCHANGED <<batch_thread, active_workers, report_file, workerFrame, matchVars>>

\* One pass of the loop over ALGORITHMS for the document in hand; after the
\* last pass the document's entry goes into the report and the loop over
\* unique_names goes on.  An exception ends the worker's try block as above.
WorkerPerfAlgo ==
    /\ mpc = "app"
    /\ worker.pc = "perf"
    /\ \E algo_name \in {AlgoNames[worker.algo]} :
       \E total \in {total_comparisons(algo_name, worker.text_to_search,
                                        worker.all_keywords, worker.case_sensitive, 0)} :
       \E entry \in {worker.json_entry[1]} :
           IF is_raised(total)
           THEN /\ batch_queue' = Append(batch_queue,
                       [status |-> "ERROR", message |-> total.raised.message])
                /\ worker' = [worker EXCEPT !.pc = "exit"]
           ELSE \E perf_results \in {Append(entry.results,
                                        [algorithm |-> algo_name,
                                         comparisons |-> total.returned])} :
                /\ worker' =
                       IF worker.algo < 3
                       THEN [worker EXCEPT
                                !.agg_performance[algo_name] = @ + total.returned,
                                !.json_entry = <<[entry EXCEPT !.results = perf_results]>>,
                                !.algo = @ + 1]
                       ELSE [worker EXCEPT
                                !.agg_performance[algo_name] = @ + total.returned,
                                !.json_report_data =
                                    Append(@, [entry EXCEPT !.results = perf_results]),
                                !.json_entry = <<>>,
                                !.text_to_search = <<>>,
                                !.unique_names = Tail(@),
                                !.algo = 0,
                                !.pc = "doc"]
                /\ UNCHANGED batch_queue
    /\ UNCHANGED <<batch_thread, active_workers, report_file, workerFrame, matchVars>>

\* After the loop, in app.py and in main.py alike: the report is written to
\* its file.  When the file cannot be opened for writing the exception ends
\* the try block, and its text goes on the queue as an ERROR message.  Once
\* the report is written the worker has its SUCCESS message yet to put.
WorkerSaveReport ==
    /\ mpc \in {"app", "main"}
    /\ worker.pc = "doc"
    /\ worker.unique_names = <<>>
    /\ IF report_file.kind = "directory"
       THEN /\ batch_queue' = Append(batch_queue,
                   [status |-> "ERROR", message |-> IsADirectoryError])
            /\ worker' = [worker EXCEPT !.pc = "exit"]
            /\ UNCHANGED report_file
       ELSE /\ report_file' = written_report(worker.json_report_data)
            /\ worker' = [worker EXCEPT !.pc = "put"]
            /\ UNCHANGED batch_queue
    /\ UNCHANGED <<batch_thread, active_workers, workerFrame, matchVars>>

\* The worker going on from the written report without its message.
WorkerPutSuccess_silent ==
    /\ mpc = "app"
    /\ worker.pc = "put"
    /\ worker' = [worker EXCEPT !.pc = "exit"]
    /\ UNCHANGED <<batch_queue, batch_thread, active_workers, report_file, workerFrame,
                   matchVars>>

\* The worker of app.py puts its SUCCESS message, with the summary made
\* before the report was written.
WorkerPutSuccess ==
    /\ mpc = "app"
    /\ worker.pc = "put"
    /\ batch_queue' = Append(batch_queue,
           [status |-> "SUCCESS", ui_data |-> worker.batch_ui_data,
            report_path |-> "data/cv_batch_report.json",
            summary |-> [total_cvs |-> Len(worker.batch_ui_data),
                         agg_perf |-> worker.agg_performance]])
    /\ worker' = [worker EXCEPT !.pc = "exit"]
    /\ UNCHANGED <<batch_thread, active_workers, report_file, workerFrame, matchVars>>

\* The worker function returns and the thread ends, in app.py and in
\* main.py.
WorkerExit ==
    /\ mpc \in {"app", "main"}
    /\ worker.pc = "exit"
    /\ worker' = WorkerIdle
    /\ batch_thread' = "dead"
    /\ active_workers' = active_workers - 1
    /\ UNCHANGED <<batch_queue, report_file, workerFrame, matchVars>>

\* The box check_batch_queue opens for the message result.
result_box(result) ==
    IF result.status = "SUCCESS"
    THEN box("check_batch_queue", "showinfo", "Batch Analysis Complete",
             "Ranked results updated.\nFull performance report saved to:\ndata/cv_batch_report.json")
    ELSE box("check_batch_queue", "showerror", "Batch Analysis Error", result.message)

\* check_batch_queue of app.py, every 100 ms on the main thread, when a
\* message waits, up to its box.  The next call is set up when this one ends,
\* so none starts while the box of one is open.  The message is taken, a
\* SUCCESS is stored and shown in the table, and the box is opened on top of
\* any other.
CheckBatchQueue ==
    /\ mpc = "app"
    /\ batch_queue # <<>>
    /\ open_boxes_of("check_batch_queue") = {}
    /\ LET result == Head(batch_queue)
       IN  /\ batch_queue' = Tail(batch_queue)
           /\ messagebox' = Append(messagebox, result_box(result))
           /\ IF result.status = "SUCCESS"
              THEN /\ batch_summary_cvs' = result.summary.total_cvs
                   /\ batch_performance_data' = result.summary.agg_perf
                   /\ batch_results_data' = result.ui_data
                   /\ batch_table' = update_batch_results_tab(result.ui_data)
              ELSE UNCHANGED <<batch_summary_cvs, batch_performance_data,
                               batch_results_data, batch_table>>
    /\ UNCHANGED <<jobVars, cvVars, optionVars, analysisVars, status_label, buttonVars,
                   export_button, threadVars, heading_reverse, diskVars, inputs_left>>
    /\ UNCHANGED matchVars

\* The box of check_batch_queue is closed: the status is set after the kind
\* of the message, and both buttons are enabled.  main.py's check_batch_queue
\* is the same text from its box on.
CheckBatchQueueReturn ==
    /\ mpc \in {"app", "main"}
    /\ messagebox # <<>>
    /\ top_box.handler = "check_batch_queue"
    /\ status_label' = IF top_box.kind = "showinfo"
                       THEN "Batch analysis complete. Ready."
                       ELSE "Error during batch analysis. Ready."
    /\ batch_button' = "normal"
    /\ analyze_button' = "normal"
    /\ messagebox' = closed_box
    /\ UNCHANGED <<jobVars, cvVars, optionVars, analysisVars, export_button, threadVars,
                   batch_queue, shownVars, tableVars, diskVars, inputs_left>>
    /\ UNCHANGED matchVars

\* ------------------------------------------------------------ inputs
Python == <<80, 121, 116, 104, 111, 110>>
SQL == <<83, 81, 76>>
Go == <<71, 111>>
KeywordUniverse == {Python, SQL, Go}

\* A document text for every set of keywords it may hold, as the extraction
\* returns the text of one page, a line feed at its end: the keywords of S
\* in lower case, a space after each, behind the word "cv".
RECURSIVE words(_)
words(ks) == IF ks = <<>> THEN <<>> ELSE lower(Head(ks)) \o <<32>> \o words(Tail(ks))
text_holding(S) == <<99, 118, 32>> \o words(sorted_strings(S)) \o <<10>>

\* "Python Go": found as it stands only when the search is case-sensitive.
PythonGoText == <<80, 121, 116, 104, 111, 110, 32, 71, 111, 10>>
\* "gopython sql": go and python run into one word.
FusedText == <<103, 111, 112, 121, 116, 104, 111, 110, 32, 115, 113, 108, 10>>

DocTexts == {text_holding(S) : S \in SUBSET KeywordUniverse} \cup {PythonGoText, FusedText}

Penalties == {0, 20, 100}

\* The job description of the scoring example: Python and SQL are required,
\* Go is preferred.
ExampleJob ==
    [required_skills |-> {Python, SQL}, preferred_skills |-> {Go},
     tools_and_frameworks |-> {}]
\* Python is both required and preferred.
OverlapJob ==
    [required_skills |-> {Python}, preferred_skills |-> {Python, Go},
     tools_and_frameworks |-> {}]
\* The same classification, and SQL as a tool.
OverlapToolJob ==
    [required_skills |-> {Python}, preferred_skills |-> {Python, Go},
     tools_and_frameworks |-> {SQL}]
\* Nothing is required or preferred, and there is a keyword all the same.
ToolsOnlyJob ==
    [required_skills |-> {}, preferred_skills |-> {}, tools_and_frameworks |-> {SQL}]
\* A file without any keyword.
EmptyJob == [required_skills |-> {}, preferred_skills |-> {}, tools_and_frameworks |-> {}]
\* A file whose "preferred_skills" is the number 5 behind a list of required
\* skills.
HalfReadFile == json_object(json_list({Go}), json_number(5), json_list({SQL}))

\* The job description files: every classification of the universe, and the
\* job with a tool only.
JobDescriptions ==
    [required_skills : SUBSET KeywordUniverse,
     preferred_skills : SUBSET KeywordUniverse,
     tools_and_frameworks : {{}}] \cup {ToolsOnlyJob}
\* The jobs on which the penalty slider and the case option are moved.
OptionJobs == {ExampleJob, OverlapJob, ToolsOnlyJob}

\* What load_job_keywords makes of a job description file.
loaded_all_keywords(data) ==
    sorted_strings(data.required_skills \cup data.preferred_skills
                   \cup data.tools_and_frameworks)

\* The folder data/job_descriptions with the files first, second and third
\* behind the three titles.
job_folder(first, second, third) ==
    ("Data Scientist" :> first) @@ ("Computer Vision Engineer" :> second)
        @@ ("Senior AI/ML Engineer (Agentic AI)" :> third)

NoFiles == <<>>
NoSingleReport == [kind |-> "none"]

MatchIdle ==
    /\ text = <<>>
    /\ pattern = <<>>
    /\ results = <<>>
    /\ patterns = <<>>
    /\ span = [start |-> -1, end |-> -1, answer |-> FALSE]
    /\ mpc = "app"

\* The application as constructed, but for the job, the CV, the options and
\* what is on the disk.
Constructed ==
    /\ performance_data = <<>>
    /\ score_label = NoScore
    /\ frame = <<>>
    /\ status_label = "Ready."
    /\ analyze_button = "normal"
    /\ batch_button = "normal"
    /\ export_button = "disabled"
    /\ batch_thread = "none"
    /\ active_workers = 0
    /\ batch_queue = <<>>
    /\ batch_results_data = <<>>
    /\ batch_performance_data = <<>>
    /\ batch_summary_cvs = -1
    /\ batch_table = <<>>
    /\ heading_reverse = HeadingsAsBuilt
    /\ single_report = NoSingleReport
    /\ messagebox = <<>>
    /\ worker = WorkerIdle

\* The application once the job behind title is selected, its file holding
\* data, and the options are set.
AppReady(title, data, penalty, case_sensitive) ==
    /\ selected_job = title
    /\ mandatory_keywords = data.required_skills
    /\ preferred_keywords = data.preferred_skills
    /\ all_keywords_list = loaded_all_keywords(data)
    /\ penalty_var = penalty
    /\ case_sensitive_var = case_sensitive
    /\ Constructed

\* Documents are called a, b, c, ...
MaxDocs == 3
DocName(k) == <<96 + k>>
pdf_of(name) == name \o PdfSuffix
docx_of(name) == name \o DocxSuffix
\* a.txt, a.PDF, a.Pdf, b.Docx, and the file called .pdf and nothing more.
OddNames == {<<97, 46, 116, 120, 116>>, <<97, 46, 80, 68, 70>>, <<97, 46, 80, 100, 102>>,
             <<98, 46, 68, 111, 99, 120>>, PdfSuffix}
\* The file names there are in the folders below.
FileNames ==
    {pdf_of(DocName(k)) : k \in 1..MaxDocs} \cup {docx_of(DocName(k)) : k \in 1..MaxDocs}
        \cup OddNames

\* What a batch folder may hold for one name: nothing, a .pdf that cannot be
\* read, or a .pdf with one of three texts (scoring 0, 52 and 100 under
\* ExampleJob at a penalty of 20).
RankTexts == {None, text_holding({}), text_holding({Python, Go}),
              text_holding(KeywordUniverse)}
RECURSIVE folder_files(_, _)
folder_files(content, k) ==
    IF k = 0 THEN NoFiles
    ELSE IF content[k] = <<>> THEN folder_files(content, k - 1)
    ELSE (pdf_of(DocName(k)) :> content[k][1]) @@ folder_files(content, k - 1)
RankFolders ==
    {[exists |-> TRUE, files |-> folder_files(content, MaxDocs)] :
        content \in [1..MaxDocs -> {<<>>} \cup {<<t>> : t \in RankTexts}]}

\* Folders that exercise the listing: no folder, a folder without CVs, a
\* .docx beside a .pdf of the same name, a .docx beside an empty .pdf of
\* another name, two documents without a text, and endings in capitals:
\* a.PDF alone, b.Docx beside a.pdf, a.Pdf beside a.docx, and a file called
\* .pdf and nothing more.
OddFolders ==
    {[exists |-> FALSE, files |-> NoFiles],
     [exists |-> TRUE, files |-> (<<97, 46, 116, 120, 116>> :> text_holding(KeywordUniverse))],
     [exists |-> TRUE, files |-> (pdf_of(DocName(1)) :> text_holding({Python, Go}))
                                 @@ (docx_of(DocName(1)) :> text_holding(KeywordUniverse))],
     [exists |-> TRUE, files |-> (docx_of(DocName(2)) :> text_holding(KeywordUniverse))
                                 @@ (pdf_of(DocName(1)) :> <<>>)],
     [exists |-> TRUE, files |-> (pdf_of(DocName(1)) :> None)
                                 @@ (pdf_of(DocName(2)) :> <<>>)],
     [exists |-> TRUE, files |-> (<<97, 46, 80, 68, 70>> :> text_holding(KeywordUniverse))],
     [exists |-> TRUE, files |-> (pdf_of(DocName(1)) :> None)
                                 @@ (<<98, 46, 68, 111, 99, 120>> :> text_holding({Python, Go}))],
     [exists |-> TRUE, files |-> (<<97, 46, 80, 100, 102>> :> text_holding({Python, Go}))
                                 @@ (docx_of(DocName(1)) :> <<>>)],
     [exists |-> TRUE, files |-> (PdfSuffix :> text_holding(KeywordUniverse))]}

\* The number of inputs of the user a behaviour is followed for.
MaxInputs == 6

\* A job is loaded, and the CV a.pdf of the batch folder: every job
\* description with every document text under the options as they start, and
\* the jobs of OptionJobs under every setting of the options.  The files of
\* the two other titles are one missing and one empty.  Two inputs follow.
InitScore ==
    /\ MatchIdle
    /\ \E data \in JobDescriptions, penalty \in Penalties, case_sensitive \in BOOLEAN :
           /\ (penalty = 20 /\ ~case_sensitive) \/ data \in OptionJobs
           /\ AppReady("Data Scientist", data, penalty, case_sensitive)
           /\ job_descriptions = job_folder(job_json(data), MissingFile, EmptyFile)
    /\ cv_filepath = path_join(CvsDir, pdf_of(DocName(1)))
    /\ cv_text_content \in DocTexts
    /\ cvs_dir = [exists |-> TRUE, files |-> (pdf_of(DocName(1)) :> cv_text_content)]
    /\ report_file = NoReport
    /\ inputs_left = MaxInputs - 4

\* The example job is loaded, no CV is, and the batch folder is any folder;
\* beside the folders of the listing the report may be a directory.  Two
\* inputs follow.
InitRank ==
    /\ MatchIdle
    /\ AppReady("Data Scientist", ExampleJob, 20, FALSE)
    /\ job_descriptions = job_folder(job_json(ExampleJob), MissingFile, EmptyFile)
    /\ cv_filepath = <<>>
    /\ cv_text_content = <<>>
    /\ \/ cvs_dir \in RankFolders /\ report_file = NoReport
       \/ cvs_dir \in OddFolders /\ report_file \in {NoReport, ReportIsDirectory}
    /\ inputs_left = MaxInputs - 4

Init == InitRank \/ InitScore

\* The application of app.py: the inputs of the user, the boxes closed, the
\* steps of the worker thread, and the queue poll.
Next ==
    \/ \E title \in JobTitles : LoadJobKeywords(title)
    \/ \E f \in FileNames : LoadCV(f)
    \/ \E penalty \in Penalties : MovePenaltySlider(penalty)
    \/ ToggleCaseSensitive
    \/ \E col \in Columns : SortTreeviewColumn(col)
    \/ RunAnalysis
    \/ RunAnalysisReturn
    \/ StartBatch
    \/ MessageboxClosed
    \/ WorkerListFiles
    \/ WorkerScoreDoc
    \/ WorkerPerfAlgo
    \/ WorkerSaveReport
    \/ WorkerPutSuccess
    \/ WorkerExit
    \/ CheckBatchQueue
    \/ CheckBatchQueueReturn

Spec == Init /\ [][Next]_vars

\* ------------------------------------------------------------ from the application as constructed
\* The batch folders: two CVs the second of which cannot be read, and one CV
\* that cannot be read.
ReadableFolder ==
    [exists |-> TRUE, files |-> (pdf_of(DocName(1)) :> text_holding(KeywordUniverse))
                                @@ (pdf_of(DocName(2)) :> None)]
UnreadableFolder == [exists |-> TRUE, files |-> (pdf_of(DocName(1)) :> None)]

\* The job description files: the example job, a file half read and a file
\* without any keyword; or a job with a tool only, a file that is missing and
\* an empty file.
JobFiles == job_folder(job_json(ExampleJob), HalfReadFile, job_json(EmptyJob))
JobFilesBroken == job_folder(job_json(ToolsOnlyJob), MissingFile, EmptyFile)

\* The application as constructed: no job is selected and no CV is loaded.
AsConstructed ==
    /\ selected_job = ""
    /\ mandatory_keywords = {}
    /\ preferred_keywords = {}
    /\ all_keywords_list = <<>>
    /\ penalty_var = 20
    /\ case_sensitive_var = FALSE
    /\ cv_filepath = <<>>
    /\ cv_text_content = <<>>
    /\ Constructed

InitJobs ==
    /\ MatchIdle
    /\ AsConstructed
    /\ \/ /\ job_descriptions = JobFiles
          /\ cvs_dir = ReadableFolder /\ report_file = NoReport
       \/ /\ job_descriptions = JobFiles
          /\ cvs_dir = UnreadableFolder /\ report_file = NoReport
       \/ /\ job_descriptions = JobFilesBroken
          /\ cvs_dir = ReadableFolder /\ report_file = NoReport
       \/ /\ job_descriptions = JobFilesBroken
          /\ cvs_dir = ReadableFolder /\ report_file = ReportIsDirectory
    /\ inputs_left = MaxInputs - 1

SpecJobs == InitJobs /\ [][Next]_vars
\* The main loop calls check_batch_queue every 100 ms: the poll is fair up
\* to its box.  Closing a box is the user's step, and nothing makes it happen.
SpecJobsFair == SpecJobs /\ WF_vars(CheckBatchQueue)

\* ------------------------------------------------------------ the options are changed
\* The files behind the titles: the example job, a job with a tool only, and
\* a file half read.
OptionFiles == job_folder(job_json(ExampleJob), job_json(ToolsOnlyJob), HalfReadFile)

\* The example job is loaded, or the job with a tool only; the batch folder
\* holds a CV that misses a mandatory keyword, in capitals, and an unreadable
\* one, or an unreadable one alone.
InitOptions ==
    /\ MatchIdle
    /\ \/ AppReady("Data Scientist", ExampleJob, 20, FALSE)
       \/ AppReady("Computer Vision Engineer", ToolsOnlyJob, 20, FALSE)
    /\ job_descriptions = OptionFiles
    /\ cv_filepath = <<>>
    /\ cv_text_content = <<>>
    /\ cvs_dir \in {[exists |-> TRUE, files |-> (pdf_of(DocName(1)) :> PythonGoText)
                                                @@ (pdf_of(DocName(2)) :> None)],
                    UnreadableFolder}
    /\ report_file = NoReport
    /\ inputs_left = MaxInputs

SpecOptions == InitOptions /\ [][Next]_vars

\* ------------------------------------------------------------ the application of main.py
\* main.py holds an application of its own, an earlier one: its penalty is
\* the constant MANDATORY_MISS_PENALTY, and its worker keeps no aggregates.
MANDATORY_MISS_PENALTY == fdiv(fint(5), fint(10))

\* The scoring of one pass of its run_analysis, from the two counters.
main_weighted_scoring(matched_mandatory, matched_preferred, mand, pref) ==
    LET penalised == matched_mandatory < Cardinality(mand)
        final(score_mand, score_pref, weighted_score) ==
            [matched_mandatory |-> matched_mandatory,
             matched_preferred |-> matched_preferred,
             score_mand |-> score_mand, score_pref |-> score_pref,
             weighted_score |-> weighted_score, penalised |-> penalised,
             final_score |-> IF penalised THEN fmul(weighted_score, MANDATORY_MISS_PENALTY)
                             ELSE weighted_score]
        weighted(score_mand, score_pref) ==
            final(score_mand, score_pref,
                  fadd(fmul(score_mand, MANDATORY_WEIGHT),
                       fmul(score_pref, PREFERRED_WEIGHT)))
    IN  weighted(IF mand # {}
                 THEN fmul(fdiv(fint(matched_mandatory), fint(Cardinality(mand))), fint(100))
                 ELSE fint(100),
                 IF pref # {}
                 THEN fmul(fdiv(fint(matched_preferred), fint(Cardinality(pref))), fint(100))
                 ELSE fint(100))

\* What one iteration of its loop over all_keywords_list does with the
\* matcher's result r for keyword, and the loop of one pass.
main_keyword_counted(keyword, r, mand, pref, acc) ==
    LET found == r.found_count > 0
    IN  [keywords |-> Tail(acc.keywords),
         matched |-> IF found THEN Append(acc.matched, keyword) ELSE acc.matched,
         missing |-> IF found THEN acc.missing ELSE Append(acc.missing, keyword),
         matched_mandatory |-> acc.matched_mandatory
             + (IF found /\ keyword \in mand THEN 1 ELSE 0),
         matched_preferred |-> acc.matched_preferred
             + (IF found /\ keyword \notin mand /\ keyword \in pref THEN 1 ELSE 0),
         total_comparisons |-> acc.total_comparisons + r.comparisons]
RECURSIVE main_keyword_loop(_, _, _, _, _, _)
main_keyword_loop(algo_name, cv_text_to_search, is_case_sensitive, mand, pref, acc) ==
    IF acc.keywords = <<>> THEN acc
    ELSE main_keyword_loop(algo_name, cv_text_to_search, is_case_sensitive, mand, pref,
             main_keyword_counted(Head(acc.keywords),
                 main_ALGORITHMS(algo_name, cv_text_to_search,
                                 IF is_case_sensitive THEN Head(acc.keywords)
                                 ELSE lower(Head(acc.keywords))),
                 mand, pref, acc))

\* One pass of its loop over ALGORITHMS, and the loop.
main_analysis_pass(algo_name, cv_text_to_search) ==
    LET c == main_keyword_loop(algo_name, cv_text_to_search, case_sensitive_var,
                          mandatory_keywords, preferred_keywords,
                          NoCounts(all_keywords_list))
    IN  pass_result(algo_name, c,
                    main_weighted_scoring(c.matched_mandatory, c.matched_preferred,
                                          mandatory_keywords, preferred_keywords))
RECURSIVE main_analysis_loop(_, _)
main_analysis_loop(cv_text_to_search, s) ==
    IF Len(s) = Len(AlgoNames) THEN s
    ELSE main_analysis_loop(cv_text_to_search,
             Append(s, main_analysis_pass(AlgoNames[Len(s) + 1], cv_text_to_search)))
main_analysis_passes ==
    main_analysis_loop(IF case_sensitive_var THEN cv_text_content
                       ELSE lower(cv_text_content), <<>>)

\* What a pass of its run_analysis has read and computed: the locals of the
\* scoring, the text searched and the case option as the handler holds them
\* in cv_text_to_search and is_case_sensitive, and the two keyword sets it
\* has tested the keywords against.
main_pass_frame(locals) ==
    [matched_mandatory |-> locals.matched_mandatory,
     matched_preferred |-> locals.matched_preferred,
     score_mand |-> locals.score_mand, score_pref |-> locals.score_pref,
     weighted_score |-> locals.weighted_score, penalised |-> locals.penalised,
     final_score |-> locals.final_score,
     cv_text_to_search |-> IF case_sensitive_var THEN cv_text_content
                           ELSE lower(cv_text_content),
     is_case_sensitive |-> case_sensitive_var,
     mandatory_keywords |-> mandatory_keywords,
     preferred_keywords |-> preferred_keywords,
     all_keywords_list |-> all_keywords_list]

\* Its worker's score of one document, with the penalty left out.
main_cv_score_unpenalised(text_to_search, mand, pref, case_sensitive) ==
    LET found(keyword) ==
            main_ALGORITHMS("Knuth-Morris-Pratt (KMP)", text_to_search,
                       IF case_sensitive THEN keyword ELSE lower(keyword)).found_count > 0
        scored(matched_mandatory, matched_preferred) ==
            fadd(fmul(IF mand # {}
                      THEN fmul(fdiv(fint(matched_mandatory), fint(Cardinality(mand))),
                                fint(100))
                      ELSE fint(100),
                      MANDATORY_WEIGHT),
                 fmul(IF pref # {}
                      THEN fmul(fdiv(fint(matched_preferred), fint(Cardinality(pref))),
                                fint(100))
                      ELSE fint(100),
                      PREFERRED_WEIGHT))
        counted(matched) ==
            scored(Cardinality(matched \cap mand), Cardinality((matched \ mand) \cap pref))
    IN  counted({k \in mand \cup pref : found(k)})

\* Its worker's score of one document: the loop over scoring_keywords with
\* the KMP matcher, the two ratios, the weighted sum and the penalty.
main_cv_score(text_to_search, mand, pref, case_sensitive) ==
    LET found(keyword) ==
            main_ALGORITHMS("Knuth-Morris-Pratt (KMP)", text_to_search,
                       IF case_sensitive THEN keyword ELSE lower(keyword)).found_count > 0
        penalised(matched_mandatory, cv_score) ==
            IF matched_mandatory < Cardinality(mand)
            THEN fmul(cv_score, MANDATORY_MISS_PENALTY)
            ELSE cv_score
        scored(matched_mandatory, matched_preferred) ==
            penalised(matched_mandatory,
                      fadd(fmul(IF mand # {}
                                THEN fmul(fdiv(fint(matched_mandatory),
                                               fint(Cardinality(mand))), fint(100))
                                ELSE fint(100),
                                MANDATORY_WEIGHT),
                           fmul(IF pref # {}
                                THEN fmul(fdiv(fint(matched_preferred),
                                               fint(Cardinality(pref))), fint(100))
                                ELSE fint(100),
                                PREFERRED_WEIGHT)))
        counted(matched) ==
            scored(Cardinality(matched \cap mand), Cardinality((matched \ mand) \cap pref))
    IN  counted({k \in mand \cup pref : found(k)})

\* total_comparisons of one algorithm over all_keywords for one document.
RECURSIVE main_total_comparisons(_, _, _, _)
main_total_comparisons(algo_name, text_to_search, keywords, case_sensitive) ==
    IF keywords = <<>> THEN 0
    ELSE main_ALGORITHMS(algo_name, text_to_search,
                         IF case_sensitive THEN Head(keywords)
                         ELSE lower(Head(keywords))).comparisons
         + main_total_comparisons(algo_name, text_to_search, Tail(keywords), case_sensitive)

\* Its 'Analyze CV' button, up to the box of a validation or to its end,
\* where the export button is enabled.
MainRunAnalysis ==
    /\ mpc = "main"
    /\ analyze_button = "normal"
    /\ messagebox = <<>>
    /\ input_taken
    /\ IF selected_job = "" \/ all_keywords_list = <<>>
          \/ cv_filepath = <<>> \/ falsy(cv_text_content)
       THEN /\ status_label' = "Analyzing..."
            /\ messagebox' = <<rejection(IF selected_job = "" \/ all_keywords_list = <<>>
                                         THEN "Please select a job position first."
                                         ELSE IF cv_filepath = <<>>
                                         THEN "Please load a CV file first."
                                         ELSE "Could not read text from CV.")>>
            /\ UNCHANGED <<performance_data, score_label, frame, export_button>>
       ELSE /\ UNCHANGED messagebox
            /\ \E passes \in {main_analysis_passes} :
                   /\ performance_data' = <<passes[1].entry, passes[2].entry,
                                            passes[3].entry>>
                   /\ frame' = <<main_pass_frame(passes[1].locals),
                                 main_pass_frame(passes[2].locals),
                                 main_pass_frame(passes[3].locals)>>
                   /\ score_label' = passes[3].entry.score
            /\ export_button' = "normal"
            /\ status_label' = "Analysis complete. Ready."
    /\ UNCHANGED <<jobVars, cvVars, optionVars, buttonVars, threadVars, batch_queue,
                   shownVars, tableVars, diskVars>>
    /\ UNCHANGED matchVars

\* Its 'Export Report (.txt)' button, up to its box or its dialog.  The
\* report is made of the name of the file of cv_filepath, the text of the
\* score label, the two lists shown, and the entries of performance_data; the
\* lists shown are those of the first entry, which run_analysis put there
\* when it filled performance_data.  Then the handler asks for the path to
\* save to.
report_content ==
    [filename |-> basename(cv_filepath), score |-> score_label,
     matched |-> performance_data[1].matched, missing |-> performance_data[1].missing,
     performance |-> [k \in DOMAIN performance_data |->
                         [name |-> performance_data[k].name,
                          comparisons |-> performance_data[k].comparisons]]]
save_dialog(content) ==
    [handler |-> "export_single_report", kind |-> "asksaveasfilename",
     title |-> "Save Report", message |-> "", report_content |-> content]
MainExportSingleReport ==
    /\ mpc = "main"
    /\ export_button = "normal"
    /\ messagebox = <<>>
    /\ input_taken
    /\ messagebox' = IF performance_data = <<>>
                     THEN <<box("export_single_report", "showerror", "Error",
                                "No analysis data to export. Please run an analysis first.")>>
                     ELSE <<save_dialog(report_content)>>
    /\ UNCHANGED <<jobVars, cvVars, optionVars, analysisVars, status_label, buttonVars,
                   export_button, threadVars, batch_queue, shownVars, tableVars,
                   diskVars>>
    /\ UNCHANGED matchVars

\* The paths the dialog may answer with: none when it is cancelled, a path
\* that can be written, and a path in a folder that cannot.
Cancelled == ""
SavePaths == {"/home/user/report.txt", "/report.txt"}
saved_message(save_path) ==
    CASE save_path = "/home/user/report.txt" -> "Report saved to:\n/home/user/report.txt"
      [] save_path = "/report.txt" ->
             "Could not export report: [Errno 13] Permission denied: '/report.txt'"
\* The dialog of export_single_report is answered with save_path: cancelled,
\* the handler returns; else it writes the report and tells so, or tells
\* the exception of the writing.
MainExportSaveAnswered(save_path) ==
    /\ mpc = "main"
    /\ messagebox # <<>>
    /\ top_box.handler = "export_single_report"
    /\ top_box.kind = "asksaveasfilename"
    /\ IF save_path = Cancelled
       THEN /\ messagebox' = closed_box
            /\ UNCHANGED single_report
       ELSE IF save_path = "/report.txt"
       THEN /\ messagebox' = Append(closed_box,
                                    box("export_single_report", "showerror", "Export Error",
                                        saved_message(save_path)))
            /\ UNCHANGED single_report
       ELSE /\ single_report' = [kind |-> "file", path |-> save_path,
                                 content |-> top_box.report_content]
            /\ messagebox' = Append(closed_box,
                                    box("export_single_report", "showinfo",
                                        "Export Successful", saved_message(save_path)))
    /\ UNCHANGED <<jobVars, cvVars, optionVars, analysisVars, status_label, buttonVars,
                   export_button, threadVars, batch_queue, shownVars, tableVars,
                   cvs_dir, job_descriptions, report_file, inputs_left>>
    /\ UNCHANGED matchVars

\* Its 'Run Batch Analysis' button: the thread is started on copies of the
\* keywords and on the case option, and there is no penalty to hand over.
MainStartBatch ==
    /\ mpc = "main"
    /\ batch_button = "normal"
    /\ messagebox = <<>>
    /\ input_taken
    /\ IF batch_thread = "alive" \/ selected_job = "" \/ all_keywords_list = <<>>
       THEN /\ messagebox' =
                   <<IF batch_thread = "alive"
                     THEN box("start_batch_analysis_thread", "showwarning", "In Progress",
                              "Batch analysis is already running.")
                     ELSE box("start_batch_analysis_thread", "showerror", "Error",
                              "Please select a job position first.")>>
            /\ UNCHANGED <<status_label, buttonVars, threadVars>>
       ELSE /\ UNCHANGED messagebox
            /\ status_label' = "Running batch analysis... This may take a while."
            /\ batch_button' = "disabled"
            /\ analyze_button' = "disabled"
            /\ batch_thread' = "alive"
            /\ active_workers' = active_workers + 1
            /\ worker' = [WorkerIdle EXCEPT
                             !.pc = "start",
                             !.mandatory_keywords = mandatory_keywords,
                             !.preferred_keywords = preferred_keywords,
                             !.all_keywords = all_keywords_list,
                             !.case_sensitive = case_sensitive_var]
    /\ UNCHANGED <<jobVars, cvVars, optionVars, analysisVars, export_button, batch_queue,
                   shownVars, tableVars, diskVars>>
    /\ UNCHANGED matchVars

\* The head of its worker's loop over unique_names: a document without text
\* is skipped, any other is scored with the KMP matcher and entered in
\* batch_ui_data.
MainWorkerScoreDoc ==
    /\ mpc = "main"
    /\ worker.pc = "doc"
    /\ worker.unique_names # <<>>
    /\ \E name \in {Head(worker.unique_names)} :
       \E doc_text \in {extracted_text(name)} :
           IF falsy(doc_text)
           THEN worker' = [worker EXCEPT !.unique_names = Tail(@)]
           ELSE \E text_to_search \in {IF worker.case_sensitive THEN doc_text
                                        ELSE lower(doc_text)} :
                \E cv_score \in {main_cv_score(text_to_search, worker.mandatory_keywords,
                                               worker.preferred_keywords,
                                               worker.case_sensitive)} :
                    worker' = [worker EXCEPT
                                  !.pc = "perf",
                                  !.algo = 1,
                                  !.text_to_search = text_to_search,
                                  !.batch_ui_data =
                                      Append(@, [cv_name |-> name, score |-> cv_score]),
                                  !.json_entry = <<[cv_name |-> name, score |-> cv_score,
                                                    results |-> <<>>]>>]
    /\ UNCHANGED <<batch_queue, batch_thread, active_workers, report_file, workerFrame,
                   matchVars>>

\* One pass of its loop over ALGORITHMS for the document in hand; after the
\* last pass the document's entry goes into the report and the loop over
\* unique_names goes on.
MainWorkerPerfAlgo ==
    /\ mpc = "main"
    /\ worker.pc = "perf"
    /\ \E algo_name \in {AlgoNames[worker.algo]} :
       \E total_comps \in {main_total_comparisons(algo_name, worker.text_to_search,
                                                  worker.all_keywords,
                                                  worker.case_sensitive)} :
       \E entry \in {worker.json_entry[1]} :
       \E perf_results \in {Append(entry.results,
                                   [algorithm |-> algo_name,
                                    comparisons |-> total_comps])} :
           worker' = IF worker.algo < 3
                     THEN [worker EXCEPT
                              !.json_entry = <<[entry EXCEPT !.results = perf_results]>>,
                              !.algo = @ + 1]
                     ELSE [worker EXCEPT
                              !.json_report_data =
                                  Append(@, [entry EXCEPT !.results = perf_results]),
                              !.json_entry = <<>>,
                              !.text_to_search = <<>>,
                              !.unique_names = Tail(@),
                              !.algo = 0,
                              !.pc = "doc"]
    /\ UNCHANGED <<batch_queue, batch_thread, active_workers, report_file, workerFrame,
                   matchVars>>

\* Its worker puts its SUCCESS message: the scores and the path of the
\* report.
MainWorkerPutSuccess ==
    /\ mpc = "main"
    /\ worker.pc = "put"
    /\ batch_queue' = Append(batch_queue,
           [status |-> "SUCCESS", ui_data |-> worker.batch_ui_data,
            report_path |-> "data/cv_batch_report.json"])
    /\ worker' = [worker EXCEPT !.pc = "exit"]
    /\ UNCHANGED <<batch_thread, active_workers, report_file, workerFrame, matchVars>>

\* Its check_batch_queue, when a message waits, up to its box.
MainCheckBatchQueue ==
    /\ mpc = "main"
    /\ batch_queue # <<>>
    /\ open_boxes_of("check_batch_queue") = {}
    /\ LET result == Head(batch_queue)
       IN  /\ batch_queue' = Tail(batch_queue)
           /\ messagebox' = Append(messagebox, result_box(result))
           /\ IF result.status = "SUCCESS"
              THEN /\ batch_results_data' = result.ui_data
                   /\ batch_table' = update_batch_results_tab(result.ui_data)
              ELSE UNCHANGED <<batch_results_data, batch_table>>
    /\ UNCHANGED <<jobVars, cvVars, optionVars, analysisVars, status_label, buttonVars,
                   export_button, threadVars, batch_performance_data, batch_summary_cvs,
                   heading_reverse, diskVars, inputs_left>>
    /\ UNCHANGED matchVars

\* The files behind the titles in main.py: a job with a keyword that is
\* required and preferred at once, the same job with a tool beside, and a
\* file half read.
MainJobFiles == job_folder(job_json(OverlapJob), job_json(OverlapToolJob), HalfReadFile)

MainIdle ==
    /\ text = <<>>
    /\ pattern = <<>>
    /\ results = <<>>
    /\ patterns = <<>>
    /\ span = [start |-> -1, end |-> -1, answer |-> FALSE]
    /\ mpc = "main"

\* A job is loaded, and the CV a.pdf of the batch folder, which holds one
\* more that cannot be read: every job description with every document text,
\* and the jobs of OptionJobs under either case option; two inputs follow.
\* Under the example job there are also a folder with a.txt beside the CV, a
\* folder to which the CV has moved as a.PDF, and no folder, and the report
\* may be a directory.
InitMainWide ==
    /\ MainIdle
    /\ cv_filepath = path_join(CvsDir, pdf_of(DocName(1)))
    /\ cv_text_content \in DocTexts
    /\ \E data \in JobDescriptions, case_sensitive \in BOOLEAN :
           /\ ~case_sensitive \/ data \in OptionJobs
           /\ AppReady("Data Scientist", data, 20, case_sensitive)
           /\ job_descriptions = job_folder(job_json(data), MissingFile, EmptyFile)
           /\ \/ /\ cvs_dir = [exists |-> TRUE,
                                files |-> (pdf_of(DocName(1)) :> cv_text_content)
                                          @@ (pdf_of(DocName(2)) :> None)]
                 /\ report_file = NoReport
              \/ /\ data = ExampleJob /\ cv_text_content = PythonGoText
                 /\ cvs_dir \in {[exists |-> TRUE,
                                  files |-> (pdf_of(DocName(1)) :> cv_text_content)
                                            @@ (<<97, 46, 116, 120, 116>> :> cv_text_content)],
                                 [exists |-> TRUE,
                                  files |-> (<<97, 46, 80, 68, 70>> :> cv_text_content)],
                                 [exists |-> FALSE, files |-> NoFiles]}
                 /\ report_file \in {NoReport, ReportIsDirectory}
    /\ inputs_left = MaxInputs - 4

\* The job with the shared keyword is loaded, and the CV a.pdf of a folder
\* of two CVs that score differently under it; four inputs follow.
InitMainJobs ==
    /\ MainIdle
    /\ AppReady("Data Scientist", OverlapJob, 20, FALSE)
    /\ job_descriptions = MainJobFiles
    /\ cv_filepath = path_join(CvsDir, pdf_of(DocName(1)))
    /\ cv_text_content = text_holding({Go, SQL})
    /\ cvs_dir = [exists |-> TRUE,
                  files |-> (pdf_of(DocName(1)) :> text_holding({Go, SQL}))
                            @@ (pdf_of(DocName(2)) :> text_holding({Python, Go}))]
    /\ report_file = NoReport
    /\ inputs_left = MaxInputs - 2

InitMain == InitMainWide \/ InitMainJobs

\* The application of main.py.
NextMain ==
    \/ \E title \in JobTitles : LoadJobKeywords(title)
    \/ \E f \in FileNames : LoadCV(f)
    \/ ToggleCaseSensitive
    \/ \E col \in Columns : SortTreeviewColumn(col)
    \/ MainRunAnalysis
    \/ RunAnalysisReturn
    \/ MainExportSingleReport
    \/ \E save_path \in {Cancelled} \cup SavePaths : MainExportSaveAnswered(save_path)
    \/ MainStartBatch
    \/ MessageboxClosed
    \/ WorkerListFiles
    \/ MainWorkerScoreDoc
    \/ MainWorkerPerfAlgo
    \/ WorkerSaveReport
    \/ MainWorkerPutSuccess
    \/ WorkerExit
    \/ MainCheckBatchQueue
    \/ CheckBatchQueueReturn

SpecMain == InitMain /\ [][NextMain]_vars

\* ------------------------------------------------------------ the matchers alone
NoResult == [found_count |-> -1, comparisons |-> -1]
NoSpan == [start |-> -1, end |-> -1, answer |-> FALSE]

AppIdle ==
    /\ selected_job = ""
    /\ mandatory_keywords = {}
    /\ preferred_keywords = {}
    /\ all_keywords_list = <<>>
    /\ cv_filepath = <<>>
    /\ cv_text_content = <<>>
    /\ penalty_var = 20
    /\ case_sensitive_var = FALSE
    /\ performance_data = <<>>
    /\ score_label = NoScore
    /\ frame = <<>>
    /\ status_label = "Ready."
    /\ analyze_button = "normal"
    /\ batch_button = "normal"
    /\ batch_thread = "none"
    /\ batch_queue = <<>>
    /\ batch_results_data = <<>>
    /\ batch_performance_data = <<>>
    /\ batch_summary_cvs = -1
    /\ batch_table = <<>>
    /\ cvs_dir = [exists |-> FALSE, files |-> NoFiles]
    /\ report_file = NoReport
    /\ messagebox = <<>>
    /\ worker = WorkerIdle
    /\ active_workers = 0
    /\ job_descriptions = job_folder(MissingFile, MissingFile, MissingFile)
    /\ export_button = "disabled"
    /\ heading_reverse = HeadingsAsBuilt
    /\ single_report = NoSingleReport
    /\ inputs_left = 0

InitMatch ==
    /\ \E pair \in MatchedPairs : text = pair[1] /\ pattern = pair[2]
    /\ results = ("Brute Force" :> NoResult) @@ ("Rabin-Karp" :> NoResult)
                 @@ ("Knuth-Morris-Pratt (KMP)" :> NoResult)
    /\ patterns = <<>>
    /\ span = NoSpan
    /\ mpc = "match"
    /\ AppIdle

\* One matcher is called on (text, pattern).
RunMatcher(name) ==
    /\ mpc = "match"
    /\ results[name] = NoResult
    /\ results' = [results EXCEPT ![name] = main_ALGORITHMS(name, text, pattern)]
    /\ UNCHANGED <<text, pattern, patterns, span, mpc, appVars>>

NextMatch == \E k \in 1..3 : RunMatcher(AlgoNames[k])

SpecMatch == InitMatch /\ [][NextMatch]_vars

InitBoundary ==
    /\ text \in BoundaryTexts
    /\ pattern = <<>>
    /\ results = ("Brute Force" :> NoResult) @@ ("Rabin-Karp" :> NoResult)
                 @@ ("Knuth-Morris-Pratt (KMP)" :> NoResult)
    /\ patterns = <<>>
    /\ span = NoSpan
    /\ mpc = "boundary"
    /\ AppIdle

\* _is_word_boundary is called on a span of the text.
CheckBoundary(start, end) ==
    /\ mpc = "boundary"
    /\ span' = [start |-> start, end |-> end, answer |-> is_word_boundary(text, start, end)]
    /\ UNCHANGED <<text, pattern, patterns, results, mpc, appVars>>

NextBoundary ==
    \E start \in 0..Len(text) : \E end \in start..Len(text) : CheckBoundary(start, end)

SpecBoundary == InitBoundary /\ [][NextBoundary]_vars

\* ------------------------------------------------------------ the failure tables alone
MaxLpsLen == 6
LpsPatterns == SeqsUpTo(Alphabet, MaxLpsLen)
NoTable == <<-1>>
LpsBuilders == {"main.py", "algorithms.py"}

\* The table each file builds for p: the lines of kmp_search of main.py that
\* fill lps, and compute_lps_array of algorithms.py.
lps_built(file, p) ==
    CASE file = "main.py" -> compute_lps(p)
      [] file = "algorithms.py" -> compute_lps_array(p)

InitLps ==
    /\ text = <<>>
    /\ pattern \in LpsPatterns
    /\ results = ("main.py" :> NoTable) @@ ("algorithms.py" :> NoTable)
    /\ patterns = <<>>
    /\ span = NoSpan
    /\ mpc = "lps"
    /\ AppIdle

\* One of the two builds the table of pattern.
BuildLps(file) ==
    /\ mpc = "lps"
    /\ results[file] = NoTable
    /\ results' = [results EXCEPT ![file] = lps_built(file, pattern)]
    /\ UNCHANGED <<text, pattern, patterns, span, mpc, appVars>>

NextLps == \E file \in LpsBuilders : BuildLps(file)

SpecLps == InitLps /\ [][NextLps]_vars

\* ------------------------------------------------------------ the hashes alone
\* Two strings of nine characters with one hash modulo 2^61 - 1, 256^8 being
\* 8 there: baaaaaaaa and aaaaaaaai.
CollideX == <<98, 97, 97, 97, 97, 97, 97, 97, 97>>
CollideY == <<97, 97, 97, 97, 97, 97, 97, 97, 105>>
\* zw wwozwoooowzzzo: seventeen characters whose first sixteen hash below
\* what their first character weighs, modulo 2^61 - 1.
LowWindow == <<122, 119, 32, 119, 119, 111, 122, 119, 111, 111, 111, 111, 119, 122, 122, 122,
               111>>

\* The texts and patterns hashed: the short ones, and long ones on which the
\* arithmetic modulo 2^61 - 1 wraps.
\* A fullwidth exclamation mark before thirty-nine a's: what the roll takes
\* off for it, its code point times the power of the base, passes 2^75.
WideWindow == <<65281>> \o [k \in 1..39 |-> 97]
LongPairs ==
    {<<WideWindow, SubSeq(WideWindow, 2, 40)>>,
     <<CollideY \o <<32>> \o CollideX, CollideX>>,
     <<CollideX \o <<32>> \o CollideY, CollideY>>,
     <<CollideY, CollideX>>,
     <<LowWindow, SubSeq(LowWindow, 2, 17)>>,
     <<LowWindow, SubSeq(LowWindow, 1, 16)>>}
HashedPairs == (Texts \X Patterns) \cup LongPairs

\* The bases and moduli given to the rabin_karp_search of algorithms.py: its
\* defaults, and two small moduli.
BaseModulus == {<<256, 101>>, <<10, 7>>, <<256, 2>>}

InitHash ==
    /\ \E pair \in HashedPairs : text = pair[1] /\ pattern = pair[2]
    /\ results = ("main.py" :> NoResult) @@ ("algorithms.py" :> NoResult)
    /\ patterns = <<>>
    /\ span = NoSpan
    /\ mpc = "hash"
    /\ AppIdle

\* rabin_karp_search of main.py is called on (text, pattern).
RunRabinKarp ==
    /\ mpc = "hash"
    /\ results["main.py"] = NoResult
    /\ results' = [results EXCEPT !["main.py"] = rabin_karp_search(text, pattern)]
    /\ UNCHANGED <<text, pattern, patterns, span, mpc, appVars>>

\* rabin_karp_search of algorithms.py is called on (text, [pattern], d, q).
RunRabinKarpWith(d, q) ==
    /\ mpc = "hash"
    /\ results["algorithms.py"] = NoResult
    /\ results' = [results EXCEPT !["algorithms.py"] =
                      [d |-> d, q |-> q,
                       returned |-> algorithms_rabin_karp_search(text, <<pattern>>, d, q)]]
    /\ UNCHANGED <<text, pattern, patterns, span, mpc, appVars>>

NextHash ==
    \/ RunRabinKarp
    \/ \E dq \in BaseModulus : RunRabinKarpWith(dq[1], dq[2])

SpecHash == InitHash /\ [][NextHash]_vars

\* ------------------------------------------------------------ the KMP scan, stepwise
\* kmp_search of main.py on (text, pattern), one pass of the scan loop at a
\* time.  results holds the position (called, scan, returned), the table,
\* the cursors and the counters, and what is returned.
LongScans ==
    {<<<<97, 97, 98, 97, 97, 98, 97, 97, 97, 98>>, <<97, 97, 98, 97, 97, 97>>>>,
     <<<<97, 98, 97, 98, 97, 98, 97, 32, 97, 98, 97>>, <<97, 98, 97, 98, 32>>>>,
     <<<<97, 97, 97, 97, 97, 97, 97, 97>>, <<97, 97, 97, 98>>>>}
ScannedPairs == (Texts \X Patterns) \cup LongScans
NotReturned == <<>>

InitKmp ==
    /\ \E pair \in ScannedPairs : text = pair[1] /\ pattern = pair[2]
    /\ results = [pc |-> "called", lps |-> <<>>,
                  s |-> [i |-> 0, j |-> 0, comparisons |-> 0, found_count |-> 0],
                  returned |-> NotReturned]
    /\ patterns = <<>>
    /\ span = NoSpan
    /\ mpc = "kmp"
    /\ AppIdle

\* The two guards, and the table.
KmpEnter ==
    /\ mpc = "kmp"
    /\ results.pc = "called"
    /\ IF Len(pattern) = 0 \/ Len(text) < Len(pattern)
       THEN results' = [results EXCEPT !.pc = "returned",
                           !.returned = <<[found_count |-> 0, comparisons |-> 0]>>]
       ELSE results' = [results EXCEPT !.pc = "scan", !.lps = compute_lps(pattern)]
    /\ UNCHANGED <<text, pattern, patterns, span, mpc, appVars>>

\* One pass of the while loop.
KmpStep ==
    /\ mpc = "kmp"
    /\ results.pc = "scan"
    /\ results.s.i < Len(text)
    /\ results' = [results EXCEPT !.s = kmp_step(text, pattern, results.lps, results.s)]
    /\ UNCHANGED <<text, pattern, patterns, span, mpc, appVars>>

\* The loop is left, and the two counters are returned.
KmpReturn ==
    /\ mpc = "kmp"
    /\ results.pc = "scan"
    /\ ~(results.s.i < Len(text))
    /\ results' = [results EXCEPT !.pc = "returned",
                      !.returned = <<[found_count |-> results.s.found_count,
                                      comparisons |-> results.s.comparisons]>>]
    /\ UNCHANGED <<text, pattern, patterns, span, mpc, appVars>>

NextKmp == KmpEnter \/ KmpStep \/ KmpReturn

SpecKmp == InitKmp /\ [][NextKmp]_vars

\* The function runs on: it is not suspended for ever.
SpecKmpFair == SpecKmp /\ WF_vars(NextKmp)

\* ------------------------------------------------------------ the rolling hash, stepwise
\* rabin_karp_search of main.py on (text, pattern) with 1 <= m <= n, one
\* assignment to win_hash at a time.  results holds the locals: the window
\* offset i, win_hash, power, and how many of the three assignments of the
\* roll to window i are done (3 at window 0, whose hash the first loop made).
InitRoll ==
    /\ \E pair \in HashedPairs :
           /\ 1 <= Len(pair[2]) /\ Len(pair[2]) <= Len(pair[1])
           /\ text = pair[1]
           /\ pattern = pair[2]
    /\ results = [i |-> 0, done |-> 3, win_hash |-> rk_hash(text, Len(pattern)),
                  power |-> rk_pow(Len(pattern) - 1)]
    /\ patterns = <<>>
    /\ span = NoSpan
    /\ mpc = "roll"
    /\ AppIdle

\* The head of the second for loop: the next offset.
RollNextWindow ==
    /\ mpc = "roll"
    /\ results.done = 3
    /\ results.i + 1 < Len(text) - Len(pattern) + 1
    /\ results' = [results EXCEPT !.i = @ + 1, !.done = 0]
    /\ UNCHANGED <<text, pattern, patterns, span, mpc, appVars>>

\* The next of the three assignments to win_hash.
RollAssign ==
    /\ mpc = "roll"
    /\ results.done < 3
    /\ \E s \in {rk_roll_assignment([done |-> results.done, h |-> results.win_hash],
                                    text[results.i], text[results.i + Len(pattern)],
                                    results.power)} :
           results' = [results EXCEPT !.done = s.done, !.win_hash = s.h]
    /\ UNCHANGED <<text, pattern, patterns, span, mpc, appVars>>

NextRoll == RollNextWindow \/ RollAssign

SpecRoll == InitRoll /\ [][NextRoll]_vars

\* ------------------------------------------------------------ run_all_algorithms alone
\* The lists of up to MaxPatterns patterns out of "", a, b and ab.
MaxPatterns == 2
ListedPatterns == {<<>>, <<97>>, <<98>>, <<97, 98>>}
PatternLists == SeqsUpTo(ListedPatterns, MaxPatterns)
NotCalled == [called |-> FALSE]

InitRunAll ==
    /\ text \in SeqsUpTo(Alphabet, MaxPatLen)
    /\ pattern = <<>>
    /\ patterns \in PatternLists
    /\ results = NotCalled
    /\ span = NoSpan
    /\ mpc = "run_all"
    /\ AppIdle

\* run_all_algorithms is called on (text, patterns).
RunAll ==
    /\ mpc = "run_all"
    /\ results = NotCalled
    /\ results' = run_all_algorithms(text, patterns)
    /\ UNCHANGED <<text, pattern, patterns, span, mpc, appVars>>

NextRunAll == RunAll

SpecRunAll == InitRunAll /\ [][NextRunAll]_vars

\* ------------------------------------------------------------ whole words
\* The span of m characters at offset i of t has a non-alphanumeric character
\* or an edge of t on either side.
flanked(t, i, m) ==
    /\ (i = 0 \/ ~isalnum(t[i]))
    /\ (i + m = Len(t) \/ ~isalnum(t[i + m + 1]))

\* The offsets at which p stands in t, character for character.
char_matches(t, p) == {i \in 0..(Len(t) - Len(p)) : SubSeq(t, i + 1, i + Len(p)) = p}

\* Those of them at which p stands as a whole word.
whole_word_offsets(t, p) == {i \in char_matches(t, p) : flanked(t, i, Len(p))}

NoMatch == [found_count |-> 0, comparisons |-> 0]
AllRan == \A a \in DOMAIN results : results[a] # NoResult

\* ------------------------------------------------------------ the matchers
\* C1: for every text and every non-empty pattern, the matchers of main.py
\* that have run on them report the same occurrence count.
C1_MatchersAgree ==
    (mpc = "match" /\ pattern # <<>>) =>
        \A a, b \in DOMAIN results :
            (results[a] # NoResult /\ results[b] # NoResult) =>
                results[a].found_count = results[b].found_count

\* All three have run on a non-empty pattern that stands in the text twice as
\* a whole word, the two occurrences overlapping, the first at offset 0 and
\* the second ending at the last character.
C1_Witness ==
    /\ mpc = "match" /\ pattern # <<>> /\ AllRan
    /\ \A a \in DOMAIN results : results[a].found_count = 2
    /\ \E i, j \in whole_word_offsets(text, pattern) :
           i = 0 /\ i < j /\ j < i + Len(pattern) /\ j + Len(pattern) = Len(text)

\* C2: for 1 <= m <= n the count of brute_force_search is the number of
\* offsets at which the pattern stands character for character and is flanked
\* on both sides by a non-alphanumeric character or an edge of the text.
C2_BruteForceCountsWholeWords ==
    (mpc = "match" /\ results["Brute Force"] # NoResult
     /\ 1 <= Len(pattern) /\ Len(pattern) <= Len(text)) =>
        results["Brute Force"].found_count = Cardinality(whole_word_offsets(text, pattern))

\* brute_force_search has counted an occurrence in a text that also holds the
\* pattern run together with an alphanumeric neighbour.
C2_Witness ==
    /\ mpc = "match" /\ results["Brute Force"] # NoResult
    /\ 1 <= Len(pattern) /\ Len(pattern) <= Len(text)
    /\ results["Brute Force"].found_count >= 1
    /\ char_matches(text, pattern) \ whole_word_offsets(text, pattern) # {}

\* The positions of t that _is_word_boundary may read for the span.
boundary_reads(t, start, end) ==
    (IF start > 0 THEN {start} ELSE {}) \cup (IF end < Len(t) THEN {end + 1} ELSE {})

\* C3: _is_word_boundary answers true iff the character before start (or the
\* edge) and the character at end (or the edge) are non-alphanumeric; the
\* answer is that of every text of the same length with the same two
\* characters, and the call changes nothing.
C3_BoundaryContract ==
    /\ [](  (mpc = "boundary" /\ span # NoSpan) =>
              /\ span.answer <=> flanked(text, span.start, span.end - span.start)
              /\ \A other \in BoundaryTexts :
                     (/\ Len(other) = Len(text)
                      /\ \A k \in boundary_reads(text, span.start, span.end) :
                             other[k] = text[k])
                     => is_word_boundary(other, span.start, span.end) = span.answer)
    /\ [][mpc = "boundary" => (text' = text /\ appVars' = appVars)]_vars

\* A span inside the text, with a character on either side, was approved.
C3_Witness ==
    /\ mpc = "boundary" /\ span # NoSpan
    /\ span.start > 0 /\ span.start < span.end /\ span.end < Len(text)
    /\ span.answer

\* C4: a matcher that has run on an empty pattern, or on a pattern longer
\* than the text, has returned 0 occurrences and 0 comparisons.
C4_DegenerateInputs ==
    (mpc = "match" /\ (pattern = <<>> \/ Len(pattern) > Len(text))) =>
        \A a \in DOMAIN results : results[a] # NoResult => results[a] = NoMatch

\* All three have run on the empty pattern and a text that is not empty.
C4_Witness ==
    /\ mpc = "match" /\ pattern = <<>> /\ text # <<>> /\ AllRan
    /\ \A a \in DOMAIN results : results[a] = NoMatch

\* ------------------------------------------------------------ the scores
Range(f) == {f[k] : k \in DOMAIN f}
Hundred == fint(100)
FiftyTwo == fint(52)

\* The locals of every scoring there is to see: the passes of the last
\* run_analysis, and the worker's scoring of the document in hand.
single_scorings == Range(frame)
batch_scorings == Range(worker.locals)

\* The keyword as it is looked for, and whether it stands in t as a whole word.
as_searched(keyword, is_case_sensitive) ==
    IF is_case_sensitive THEN keyword ELSE lower(keyword)
stands_in(t, keyword, is_case_sensitive) ==
    whole_word_offsets(t, as_searched(keyword, is_case_sensitive)) # {}

\* A press of 'Analyze CV' that passes the three validations, and the worker
\* taking a document that has a text.
no_keywords == selected_job = "" \/ all_keywords_list = <<>>
Analysed ==
    /\ ~no_keywords /\ cv_filepath # <<>> /\ ~falsy(cv_text_content)
    /\ RunAnalysis
Scored ==
    /\ worker.pc = "doc" /\ worker.unique_names # <<>>
    /\ ~falsy(extracted_text(Head(worker.unique_names)))
    /\ WorkerScoreDoc
\* What they are to leave: the three passes with their entries and the score
\* shown; the document scored and entered in batch_ui_data.
analysis_complete ==
    /\ Len(frame) = Len(AlgoNames) /\ Len(performance_data) = Len(AlgoNames)
    /\ score_label = performance_data[Len(AlgoNames)].score
document_scored ==
    /\ worker.pc = "perf" /\ Len(worker.locals) = 1
    /\ worker.batch_ui_data # <<>>
    /\ worker.batch_ui_data[Len(worker.batch_ui_data)].score = worker.locals[1].final_score

\* The CV loaded and the document in hand as they are searched, and the
\* keywords of S that stand in them.
cv_searched == IF case_sensitive_var THEN cv_text_content ELSE lower(cv_text_content)
cv_found(S) == {kw \in S : stands_in(cv_searched, kw, case_sensitive_var)}
doc_found(S) == {kw \in S : stands_in(worker.text_to_search, kw, worker.case_sensitive)}

\* A ratio: matched over the size of the set as a percentage, or 100 when the
\* set is empty.
ratio(matched, keywords) ==
    IF keywords = {} THEN fint(100)
    ELSE fmul(fdiv(fint(matched), fint(Cardinality(keywords))), fint(100))

\* loc.weighted_score = mandatory ratio * 0.70 + preferred ratio * 0.30.
weighted_as_claimed(loc, mand, pref) ==
    loc.weighted_score
        = fadd(fmul(ratio(loc.matched_mandatory, mand), MANDATORY_WEIGHT),
               fmul(ratio(loc.matched_preferred, pref), PREFERRED_WEIGHT))
C5_Scores ==
    /\ analysis_complete
    /\ \A loc \in single_scorings :
           weighted_as_claimed(loc, mandatory_keywords, preferred_keywords)
    /\ (/\ mandatory_keywords = {Python, SQL} /\ preferred_keywords = {Go}
        /\ penalty_var = 20 /\ cv_found(Range(all_keywords_list)) = {Python, Go})
       => score_label = FiftyTwo

\* C5: the score of a pass of run_analysis before the penalty is
\* mandatory_ratio * 0.70 + preferred_ratio * 0.30, a ratio being 100 for an
\* empty set; with Python and SQL mandatory, Go preferred and a penalty of 20,
\* the analysis of a document in which only Python and Go are found shows 52.
C5_WeightedScore == [][Analysed => C5_Scores']_vars

\* loc.final_score is loc.weighted_score times (1 - p/100) when a mandatory
\* keyword was missed, and loc.weighted_score itself when none was.
penalty_as_claimed(loc, mand, p) ==
    /\ loc.penalised <=> loc.matched_mandatory < Cardinality(mand)
    /\ IF loc.matched_mandatory < Cardinality(mand)
       THEN loc.final_score
                = fmul(loc.weighted_score, fsub(fint(1), fdiv(fint(p), fint(100))))
       ELSE loc.final_score = loc.weighted_score
C6_Single ==
    /\ analysis_complete
    /\ \A k \in DOMAIN frame :
           /\ frame[k].matched_mandatory = Cardinality(cv_found(mandatory_keywords))
           /\ penalty_as_claimed(frame[k], mandatory_keywords, penalty_var)
           /\ performance_data[k].score = frame[k].final_score
C6_Batch ==
    /\ document_scored
    /\ \A loc \in batch_scorings :
           /\ loc.matched_mandatory = Cardinality(doc_found(worker.mandatory_keywords))
           /\ penalty_as_claimed(loc, worker.mandatory_keywords, worker.penalty_value)

\* C6: in run_analysis and in the batch worker the penalty is applied iff
\* fewer mandatory keywords were matched than there are; the weighted score
\* is then multiplied by 1 - p/100, and is else the final score as it is.
C6_PenaltyOnMandatoryMiss ==
    /\ [][Analysed => C6_Single']_vars
    /\ [][Scored => C6_Batch']_vars

C7_Single ==
    /\ analysis_complete
    /\ \A loc \in single_scorings : ~loc.penalised /\ loc.final_score = Hundred
    /\ score_label = Hundred
C7_Batch ==
    /\ document_scored
    /\ \A loc \in batch_scorings : ~loc.penalised /\ loc.final_score = Hundred

\* C7: with no mandatory and no preferred keyword a document scores exactly
\* 100 and no penalty is applied, in run_analysis and in the batch worker,
\* whatever the text and the penalty.
C7_EmptySetsScoreHundred ==
    /\ [][(Analysed /\ mandatory_keywords = {} /\ preferred_keywords = {})
              => C7_Single']_vars
    /\ [][(Scored /\ worker.mandatory_keywords = {} /\ worker.preferred_keywords = {})
              => C7_Batch']_vars

in_range(score) == fleq(score, Hundred)
C8_Single ==
    /\ analysis_complete
    /\ in_range(score_label)
    /\ \A k \in DOMAIN performance_data : in_range(performance_data[k].score)
C8_Batch ==
    /\ document_scored
    /\ \A k \in DOMAIN worker.batch_ui_data : in_range(worker.batch_ui_data[k].score)

\* C8: run_analysis and the batch worker produce a final score, and it lies
\* in [0, 100], whatever the classification, the matches and the penalty.
C8_ScoreInRange ==
    /\ [][Analysed => C8_Single']_vars
    /\ [][Scored => C8_Batch']_vars

C9_Single ==
    /\ analysis_complete
    /\ \A k \in DOMAIN frame :
           /\ frame[k].matched_mandatory = Cardinality(cv_found(mandatory_keywords))
           /\ frame[k].matched_preferred
                  = Cardinality(cv_found(preferred_keywords \ mandatory_keywords))
C9_Batch ==
    /\ document_scored
    /\ \A loc \in batch_scorings :
           /\ loc.matched_mandatory = Cardinality(doc_found(worker.mandatory_keywords))
           /\ loc.matched_preferred
                  = Cardinality(doc_found(worker.preferred_keywords
                                              \ worker.mandatory_keywords))

\* C9: a matched keyword that is both mandatory and preferred is counted
\* once, as mandatory: matched_mandatory counts the matched keywords that are
\* mandatory and matched_preferred those that are preferred and not
\* mandatory, in run_analysis and in the batch worker.
C9_MandatoryWins ==
    /\ [][Analysed => C9_Single']_vars
    /\ [][Scored => C9_Batch']_vars

\* ------------------------------------------------------------ the batch, document by document
\* The names of the batch in the order the worker takes them, and those of
\* them whose file gives a text that is neither None nor empty.
batch_names == listed_names
has_text(name) == extracted_text(name) # None /\ Len(extracted_text(name)) > 0
RECURSIVE with_text(_)
with_text(names) ==
    IF names = <<>> THEN <<>>
    ELSE IF has_text(Head(names)) THEN <<Head(names)>> \o with_text(Tail(names))
    ELSE with_text(Tail(names))

\* The names the worker has taken from unique_names so far, the one in hand
\* included, and those it has finished with.
worker_runs == worker.pc \in {"doc", "perf", "put"}
names_taken ==
    SubSeq(batch_names, 1,
           Len(batch_names) - Len(worker.unique_names)
               + (IF worker.pc = "perf" THEN 1 ELSE 0))
names_finished == SubSeq(batch_names, 1, Len(batch_names) - Len(worker.unique_names))
cv_names(entries) == [k \in DOMAIN entries |-> entries[k].cv_name]
successes == {k \in DOMAIN batch_queue : batch_queue[k].status = "SUCCESS"}

\* ------------------------------------------------------------ the ranking
score_of(cv_name) ==
    (CHOOSE r \in Range(batch_results_data) : r.cv_name = cv_name).score
C10_Ranked ==
    /\ cv_names(batch_results_data) = with_text(batch_names)
    /\ Len(batch_table) = Len(batch_results_data)
    /\ {batch_table[k].cv_name : k \in DOMAIN batch_table}
           = {batch_results_data[k].cv_name : k \in DOMAIN batch_results_data}
    /\ \A i, j \in DOMAIN batch_table :
           i < j =>
               \/ fless(score_of(batch_table[j].cv_name), score_of(batch_table[i].cv_name))
               \/ /\ score_of(batch_table[j].cv_name) = score_of(batch_table[i].cv_name)
                  /\ str_less(batch_table[i].cv_name, batch_table[j].cv_name)

\* C10: once the message of a batch over a folder with CV files, its report
\* free to be written, is taken from the queue, the rows of the batch table
\* are the documents of the batch that have a text, a higher score first
\* and, at equal scores, the lesser name first.
C10_Ranking ==
    [][(CheckBatchQueue /\ cvs_dir.exists /\ cv_files # {}
            /\ report_file.kind # "directory") => C10_Ranked']_vars

\* What the worker holds and what a batch reports when documents without a
\* text are skipped.
C11_Skipped ==
    /\ worker_runs =>
           /\ cv_names(worker.batch_ui_data) = with_text(names_taken)
           /\ cv_names(worker.json_report_data) = with_text(names_finished)
           /\ with_text(names_taken) = <<>> =>
                  \A a \in DOMAIN worker.agg_performance : worker.agg_performance[a] = 0
    /\ \A k \in successes :
           /\ cv_names(batch_queue[k].ui_data) = with_text(batch_names)
           /\ report_file.kind = "file"
           /\ cv_names(report_file.data) = with_text(batch_names)
           /\ batch_queue[k].summary.total_cvs = Len(with_text(batch_names))
    /\ batch_summary_cvs # -1 =>
           /\ batch_summary_cvs = Len(with_text(batch_names))
           /\ cv_names(batch_results_data) = with_text(batch_names)
C11_GoesOn ==
    (/\ worker.pc = "doc" /\ worker.unique_names # <<>>
     /\ ~has_text(Head(worker.unique_names))
     /\ WorkerScoreDoc)
        => /\ worker'.pc = "doc"
           /\ worker'.unique_names = Tail(worker.unique_names)
           /\ worker'.batch_ui_data = worker.batch_ui_data
           /\ worker'.json_report_data = worker.json_report_data
           /\ worker'.agg_performance = worker.agg_performance
           /\ batch_queue' = batch_queue
\* The batch over a folder with CV files, its report free to be written,
\* ends in a message that reports the documents with a text as processed.
C11_Counted ==
    (worker_runs /\ worker'.pc = "exit" /\ report_file.kind # "directory") =>
        /\ batch_queue' # <<>>
        /\ batch_queue'[Len(batch_queue')].status = "SUCCESS"
        /\ batch_queue'[Len(batch_queue')].summary.total_cvs = Len(with_text(batch_names))
        /\ cv_names(batch_queue'[Len(batch_queue')].ui_data) = with_text(batch_names)

\* C11: the worker skips a document whose text is None or empty: it gets no
\* score entry and no report entry and adds nothing to the aggregates, the
\* worker goes on to the document after it, and the count of processed
\* documents that the batch reports is the number of documents with a text.
C11_SkipsUnreadable ==
    /\ [](C11_Skipped)
    /\ [][C11_GoesOn]_vars
    /\ [][C11_Counted]_vars

\* The 'comparisons' values the report entries hold for algorithm a.
RECURSIVE reported_comparisons(_, _)
reported_comparisons(a, report) ==
    IF report = <<>> THEN 0
    ELSE LET rows == Head(report).results
             mine == {k \in DOMAIN rows : rows[k].algorithm = a}
         IN  (IF mine = {} THEN 0 ELSE rows[CHOOSE k \in mine : TRUE].comparisons)
             + reported_comparisons(a, Tail(report))

C12_Sums ==
    /\ worker.pc = "start" => \A a \in AlgoSet : worker.agg_performance[a] = 0
    /\ worker.pc \in {"doc", "put"} =>
           \A a \in AlgoSet :
               /\ worker.agg_performance[a] >= 0
               /\ worker.agg_performance[a] = reported_comparisons(a, worker.json_report_data)
C12_NeverLess ==
    (worker_runs /\ worker'.pc \in {"doc", "perf", "put", "exit"}) =>
        \A a \in AlgoSet : worker.agg_performance'[a] >= worker.agg_performance[a]
C12_Reported ==
    (worker_runs /\ worker'.pc = "exit" /\ report_file.kind # "directory") =>
        /\ batch_queue' # <<>>
        /\ batch_queue'[Len(batch_queue')].status = "SUCCESS"
        /\ report_file'.kind = "file"
        /\ cv_names(report_file'.data) = with_text(batch_names)
        /\ \A a \in AlgoSet :
               batch_queue'[Len(batch_queue')].summary.agg_perf[a]
                   = reported_comparisons(a, report_file'.data)

\* C12: an algorithm's aggregate comparison counter is 0 when the batch
\* starts, never decreases while the batch runs, and at the end of a batch
\* over a folder with CV files, its report free to be written, it is reported
\* as the sum of the 'comparisons' values the report holds for that
\* algorithm, one entry for every document with a text.
C12_AggregateComparisons ==
    /\ [](C12_Sums)
    /\ [][C12_NeverLess]_vars
    /\ [][C12_Reported]_vars

\* ------------------------------------------------------------ the failure table
\* The lengths k of the proper prefixes of p[0..i] that are also suffixes of
\* it, and the greatest of them (0 is always one).
borders(p, i) ==
    {k \in 0..i : SubSeq(p, 1, k) = SubSeq(p, i + 2 - k, i + 1)}
longest_border(p, i) == CHOOSE k \in borders(p, i) : \A l \in borders(p, i) : l <= k
aabaa == <<97, 97, 98, 97, 97>>

\* C13: the table built for a non-empty pattern, by main.py and by
\* algorithms.py, holds at every index i the length of the longest proper
\* prefix of pattern[0..i] that is also a suffix of it; the table of aabaa is
\* 0, 1, 0, 1, 2.
C13_FailureTable ==
    \A file \in LpsBuilders :
        (results[file] # NoTable /\ pattern # <<>>) =>
            /\ Len(results[file]) = Len(pattern)
            /\ \A i \in 0..(Len(pattern) - 1) :
                   results[file][i + 1] = longest_border(pattern, i)
            /\ pattern = aabaa => results[file] = <<0, 1, 0, 1, 2>>

\* Both have built the table of aabaa.
C13_Witness ==
    /\ pattern = aabaa
    /\ results["main.py"] = <<0, 1, 0, 1, 2>>
    /\ results["algorithms.py"] = <<0, 1, 0, 1, 2>>

\* ------------------------------------------------------------ collisions
\* The offsets of the windows of t that differ from p and have its hash:
\* under main.py's base and modulus, and under d and q.
windows(t, p) == 0..(Len(t) - Len(p))
collisions(t, p) ==
    {i \in windows(t, p) :
        /\ SubSeq(t, i + 1, i + Len(p)) # p
        /\ rk_hash(SubSeq(t, i + 1, i + Len(p)), Len(p)) = rk_hash(p, Len(p))}
collisions_with(t, p, d, q) ==
    {i \in windows(t, p) :
        /\ SubSeq(t, i + 1, i + Len(p)) # p
        /\ initial_hash(SubSeq(t, i + 1, i + Len(p)), Len(p), d, q)
               = initial_hash(p, Len(p), d, q)}

\* C14: rabin_karp_search counts no window that has the pattern's hash and
\* other characters.  main.py's returns a count: it is the number of
\* whole-word windows equal to the pattern, whatever collides.  algorithms.py's
\* returns the offsets: each is a window equal to the pattern, under every
\* base and modulus.
C14_NoFalsePositive ==
    /\ (results["main.py"] # NoResult /\ pattern # <<>>) =>
           results["main.py"].found_count = Cardinality(whole_word_offsets(text, pattern))
    /\ results["algorithms.py"] # NoResult =>
           \A k \in DOMAIN results["algorithms.py"].returned[pattern].occurrences :
               results["algorithms.py"].returned[pattern].occurrences[k]
                   \in char_matches(text, pattern)

\* Both have searched a text with a window that collides with the pattern,
\* modulo 2^61 - 1 and modulo 7, and a window that is the pattern: the one is
\* counted and the other is not.
C14_Witness ==
    /\ results["main.py"] # NoResult /\ results["algorithms.py"] # NoResult
    /\ collisions(text, pattern) # {}
    /\ results["algorithms.py"].q = 7
    /\ collisions_with(text, pattern, 10, 7) # {}
    /\ results["main.py"].found_count = 1
    /\ Len(results["algorithms.py"].returned[pattern].occurrences) = 1

\* ------------------------------------------------------------ comparison counts
\* C15: for each matcher of main.py and a fixed pattern the comparison count
\* is at least 0, and that of the text with one more character at its end is
\* no less than that of the text.
C15_ComparisonsGrowWithText ==
    \A a \in DOMAIN results :
        results[a] # NoResult =>
            /\ results[a].comparisons >= 0
            /\ \A c \in Alphabet :
                   main_ALGORITHMS(a, Append(text, c), pattern).comparisons
                       >= results[a].comparisons

\* All three have run on a text that holds the pattern twice, and each makes
\* more comparisons once an a is put at the end of the text.
C15_Witness ==
    /\ AllRan
    /\ pattern = <<97>> /\ text = <<97, 32, 97>>
    /\ \A a \in DOMAIN results :
           /\ results[a].comparisons > 0
           /\ main_ALGORITHMS(a, Append(text, 97), pattern).comparisons > results[a].comparisons

\* ------------------------------------------------------------ the empty pattern
has_empty(pats) == \E k \in DOMAIN pats : pats[k] = <<>>
completed == results # NotCalled /\ ~is_raised(results)

\* C16: run_all_algorithms on a list with an empty pattern completes without
\* error, and the result for the empty pattern has no occurrence and no
\* comparison on Brute Force, KMP and Rabin-Karp.
C16_EmptyPatternInList ==
    (results # NotCalled /\ has_empty(patterns)) =>
        /\ completed
        /\ \A a \in {"Brute Force", "KMP", "Rabin-Karp"} :
               /\ results.returned[a].results[<<>>].occurrences = <<>>
               /\ results.returned[a].results[<<>>].comparisons = 0

\* ------------------------------------------------------------ no keywords
stored_results == <<performance_data, score_label, frame, batch_results_data,
                    batch_performance_data, batch_summary_cvs, batch_table>>
NothingStarted ==
    /\ stored_results' = stored_results
    /\ batch_thread' = batch_thread
    /\ worker' = worker
    /\ batch_queue' = batch_queue

\* A box of one of the two handlers is open on top: the handler has rejected
\* the request; and the box is that of a rejection for want of keywords.
request_rejected ==
    /\ messagebox # <<>>
    /\ top_box.handler \in {"run_analysis", "start_batch_analysis_thread"}
rejected_for_keywords ==
    /\ request_rejected
    /\ top_box.message = "Please select a job position first."

\* C17: a press of 'Analyze CV' or of 'Run Batch Analysis' while no job is
\* selected or the keyword list is empty is rejected: the press opens the
\* box of the rejection, and neither the press nor the handler's return from
\* the box runs a matcher, starts a worker thread, or changes
\* performance_data or the batch results.
C17_RejectedWithoutKeywords ==
    /\ [][(no_keywords /\ (RunAnalysis \/ StartBatch))
              => (NothingStarted /\ request_rejected')]_vars
    /\ [][(rejected_for_keywords /\ (RunAnalysisReturn \/ MessageboxClosed))
              => NothingStarted]_vars

\* 'Analyze CV' was rejected for a selected job whose file load_job_keywords
\* has read half, so that there are mandatory keywords and no keyword list, a
\* CV being loaded, and the handler has returned from its box.
C17_Witness ==
    /\ mpc = "app"
    /\ selected_job # ""
    /\ all_keywords_list = <<>>
    /\ mandatory_keywords # {}
    /\ cv_filepath # <<>> /\ ~falsy(cv_text_content)
    /\ status_label = "Error. Ready."
    /\ messagebox = <<>>
    /\ performance_data = <<>>
    /\ batch_thread = "none"

\* ------------------------------------------------------------ brute force, counted
\* L_i: the length of the longest common prefix of text[i..i+m) and the pattern.
common_prefix(t, p, i) ==
    CHOOSE k \in 0..Len(p) :
        /\ SubSeq(t, i + 1, i + k) = SubSeq(p, 1, k)
        /\ k = Len(p) \/ t[i + k + 1] # p[k + 1]
tests_at(t, p, i) ==
    IF common_prefix(t, p, i) + 1 < Len(p) THEN common_prefix(t, p, i) + 1 ELSE Len(p)
RECURSIVE sum_tests(_, _, _)
sum_tests(t, p, i) ==
    IF i < 0 THEN 0 ELSE tests_at(t, p, i) + sum_tests(t, p, i - 1)
offsets_count(t, p) == Len(t) - Len(p) + 1

\* C18: for 1 <= m <= n the comparison count of brute_force_search is the sum
\* over the offsets 0..n-m of min(m, L_i + 1), which lies between n-m+1 and
\* (n-m+1)*m.
C18_BruteForceComparisons ==
    (results["Brute Force"] # NoResult /\ 1 <= Len(pattern) /\ Len(pattern) <= Len(text)) =>
        /\ results["Brute Force"].comparisons
               = sum_tests(text, pattern, Len(text) - Len(pattern))
        /\ offsets_count(text, pattern) <= results["Brute Force"].comparisons
        /\ results["Brute Force"].comparisons
               <= offsets_count(text, pattern) * Len(pattern)

\* A search strictly between the two bounds: some offset stops at its first
\* test and some other goes further.
C18_Witness ==
    /\ results["Brute Force"] # NoResult
    /\ 1 <= Len(pattern) /\ Len(pattern) <= Len(text)
    /\ offsets_count(text, pattern) < results["Brute Force"].comparisons
    /\ results["Brute Force"].comparisons < offsets_count(text, pattern) * Len(pattern)
    /\ \E i \in windows(text, pattern) :
           0 < common_prefix(text, pattern, i) /\ common_prefix(text, pattern, i) < Len(pattern)

\* ------------------------------------------------------------ Rabin-Karp, counted
\* C19: for 1 <= m <= n the comparison count of rabin_karp_search holds one
\* comparison of hashes for each of the n-m+1 windows, besides the characters
\* verified, so it is at least n-m+1.
C19_CountsEveryWindow ==
    (results["Rabin-Karp"] # NoResult /\ 1 <= Len(pattern) /\ Len(pattern) <= Len(text)) =>
        results["Rabin-Karp"].comparisons >= offsets_count(text, pattern)

\* ------------------------------------------------------------ the rolling hash
\* The polynomial hash of text[i..i+m) computed term by term: the sum over k
\* of ord(text[i+k]) * base^(m-1-k), modulo mod.
hash_term(t, i, m, k) == big_mod(big_mul_small(rk_pow(m - 1 - k), t[i + k + 1]))
RECURSIVE direct_hash_from(_, _, _, _)
direct_hash_from(t, i, m, s) ==
    IF s.k < m
    THEN direct_hash_from(t, i, m,
             [k |-> s.k + 1, sum |-> big_mod(big_add(s.sum, hash_term(t, i, m, s.k)))])
    ELSE s.sum
direct_hash(t, i, m) == direct_hash_from(t, i, m, [k |-> 0, sum |-> big_of(0)])

\* 0 <= x < mod, for x in six digits.
in_mod_range(x) ==
    /\ \A k \in 1..6 : 0 <= x[k] /\ x[k] < LimbBase
    /\ big_less(x, rk_mod)

\* C20: after each assignment to win_hash it is at least 0 and below mod, and
\* at every window offset i, once rolled, it is the polynomial hash of
\* text[i..i+m).
C20_RollingHash ==
    mpc = "roll" =>
        /\ in_mod_range(results.win_hash)
        /\ results.done = 3 =>
               results.win_hash = direct_hash(text, results.i, Len(pattern))

\* The hash was rolled to a window from a hash smaller than the term of the
\* leading character, where the subtraction is below zero before mod is added.
C20_Witness ==
    /\ mpc = "roll"
    /\ results.done = 3
    /\ results.i >= 1
    /\ big_less(direct_hash(text, results.i - 1, Len(pattern)),
                big_mod(big_mul_small(results.power, text[results.i])))

\* ------------------------------------------------------------ the text cursor of KMP
probe_matches == text[results.s.i + 1] = pattern[results.s.j + 1]
i_advances == results'.s.i = results.s.i + 1
j_falls_back ==
    /\ results'.s.i = results.s.i
    /\ results'.s.j = results.lps[results.s.j]

\* C21: a pass of the scan loop of kmp_search advances i by one on a match and
\* on a mismatch with j = 0, and on a mismatch with j # 0 leaves i as it is
\* and sets j to lps[j-1]; so i never decreases.
C21_TextCursorNeverBack ==
    [][KmpStep =>
          /\ results'.s.i >= results.s.i
          /\ IF probe_matches \/ results.s.j = 0 THEN i_advances ELSE j_falls_back]_vars

\* A scan that has fallen back along the table (more comparisons than
\* characters passed) and holds a partial match of two characters or more.
C21_Witness ==
    /\ mpc = "kmp"
    /\ results.pc = "scan"
    /\ results.s.comparisons > results.s.i
    /\ results.s.j >= 2
    /\ results.s.i < Len(text)

\* ------------------------------------------------------------ rejected by the boundary
\* The full character matches whose span _is_word_boundary rejects.
boundary_rejected(t, p) ==
    {i \in char_matches(t, p) : ~is_word_boundary(t, i, i + Len(p))}
NaiveAndKmp == {"Brute Force", "Knuth-Morris-Pratt (KMP)"}
ran_on_fitting(a) ==
    /\ mpc = "match"
    /\ results[a] # NoResult
    /\ 1 <= Len(pattern) /\ Len(pattern) <= Len(text)

\* C22 as stated: brute_force_search and kmp_search count every full
\* character match, whether or not _is_word_boundary approves its span.
C22_CountedRegardless ==
    \A a \in NaiveAndKmp :
        ran_on_fitting(a) =>
            results[a].found_count = Cardinality(char_matches(text, pattern))

\* C22, amended: brute_force_search and kmp_search count a full character
\* match only if _is_word_boundary approves its span; every rejected match
\* takes one off the count of full character matches.
C22_RejectedNotCounted ==
    \A a \in NaiveAndKmp :
        ran_on_fitting(a) =>
            results[a].found_count
                = Cardinality(char_matches(text, pattern))
                  - Cardinality(boundary_rejected(text, pattern))

\* Both have run on a text with an approved and a rejected full match.
C22_Witness ==
    /\ \A a \in NaiveAndKmp : ran_on_fitting(a) /\ results[a].found_count >= 1
    /\ boundary_rejected(text, pattern) # {}

\* ------------------------------------------------------------ a document half merged
\* C23: while the worker runs, the three accumulators hold the contributions
\* of the documents it has finished with and of no other: the score list and
\* the report list name exactly those documents, and each aggregate is the
\* sum of the comparisons their report entries hold.
C23_MergedWhenComplete ==
    worker_runs =>
        /\ cv_names(worker.batch_ui_data) = with_text(names_finished)
        /\ cv_names(worker.json_report_data) = with_text(names_finished)
        /\ \A a \in AlgoSet :
               worker.agg_performance[a] = reported_comparisons(a, worker.json_report_data)

\* ------------------------------------------------------------ the three passes agree
\* C24: the three entries run_analysis of main.py appends to performance_data
\* carry the same score, the same matched list and the same missing list; so
\* the score shown, that of the last, goes with the lists shown, those of the
\* first.
C24_PassesAgree ==
    (mpc = "main" /\ performance_data # <<>>) =>
        /\ Len(performance_data) = 3
        /\ \A k \in DOMAIN performance_data :
               /\ performance_data[k].score = performance_data[1].score
               /\ performance_data[k].matched = performance_data[1].matched
               /\ performance_data[k].missing = performance_data[1].missing
        /\ score_label = performance_data[1].score

\* An analysis in which a keyword stands in the text run together with
\* another word, another is matched and another is missing.
C24_Witness ==
    /\ mpc = "main"
    /\ performance_data # <<>>
    /\ cv_text_content = FusedText
    /\ performance_data[1].matched # <<>>
    /\ Go \in Range(performance_data[1].missing)
    /\ \E k \in DOMAIN performance_data :
           performance_data[k].comparisons # performance_data[1].comparisons

\* ------------------------------------------------------------ batch score, single score
\* The last run_analysis of main.py that came to its end searched the text
\* the worker searches for the document called name, under the case option
\* and the keyword classification the worker was started with.  The penalty
\* is a constant of main.py.  The keyword lists may differ.
same_settings(name) ==
    /\ frame # <<>>
    /\ frame[3].cv_text_to_search = (IF worker.case_sensitive THEN extracted_text(name)
                                     ELSE lower(extracted_text(name)))
    /\ frame[3].is_case_sensitive = worker.case_sensitive
    /\ frame[3].mandatory_keywords = worker.mandatory_keywords
    /\ frame[3].preferred_keywords = worker.preferred_keywords

captured(w) == <<w.mandatory_keywords, w.preferred_keywords, w.all_keywords,
                 w.penalty_value, w.case_sensitive>>
on_main_thread == <<mandatory_keywords, preferred_keywords, all_keywords_list,
                    penalty_var, case_sensitive_var>>
\* What the arguments mand, pref, case_sensitive and penalty_value make of
\* the document called name: the outcomes of its scoring, one for every order
\* in which the scoring keywords may be met.
scorings_with(name, mand, pref, case_sensitive, penalty_value) ==
    {IF is_raised(c) THEN c
     ELSE Returned(cv_scoring(c.returned.matched_mandatory, c.returned.matched_preferred,
                              mand, pref, penalty_value).final_score) :
        c \in {cv_counts(IF case_sensitive THEN extracted_text(name)
                         ELSE lower(extracted_text(name)),
                         order, case_sensitive,
                         [matched_mandatory |-> 0, matched_preferred |-> 0]) :
                  order \in Orders(mand \cup pref)}}
scorings_as_captured(name) ==
    scorings_with(name, worker.mandatory_keywords, worker.preferred_keywords,
                  worker.case_sensitive, worker.penalty_value)
\* And of its comparisons under the algorithm called algo_name.
comparisons_as_captured(name, algo_name) ==
    total_comparisons(algo_name,
                      IF worker.case_sensitive THEN extracted_text(name)
                      ELSE lower(extracted_text(name)),
                      worker.all_keywords, worker.case_sensitive, 0)
messages_of(outcomes) == {o.raised.message : o \in {x \in outcomes : is_raised(x)}}

entries_as_captured(entries) ==
    \A k \in DOMAIN entries : Returned(entries[k].score) \in scorings_as_captured(entries[k].cv_name)
reports_as_captured(report) ==
    \A k \in DOMAIN report :
        /\ Returned(report[k].score) \in scorings_as_captured(report[k].cv_name)
        /\ \A r \in DOMAIN report[k].results :
               Returned(report[k].results[r].comparisons)
                   = comparisons_as_captured(report[k].cv_name,
                                             report[k].results[r].algorithm)
C25_Produced ==
    worker.pc # "idle" =>
        /\ entries_as_captured(worker.batch_ui_data)
        /\ reports_as_captured(worker.json_report_data)
\* The message of a batch that an exception ends is that of the exception the
\* worker's arguments raise on the document in hand.
C25_Message ==
    (worker_runs /\ worker.unique_names # <<>> /\ worker'.pc = "exit") =>
        /\ batch_queue' # <<>>
        /\ batch_queue'[Len(batch_queue')].status = "ERROR"
        /\ batch_queue'[Len(batch_queue')].message
               \in IF worker.pc = "doc"
                   THEN messages_of(scorings_as_captured(Head(worker.unique_names)))
                   ELSE messages_of({comparisons_as_captured(Head(worker.unique_names),
                                                             AlgoNames[worker.algo])})
C25_Held ==
    /\ (worker.pc = "idle" /\ worker'.pc # "idle") => captured(worker') = on_main_thread
    /\ (worker.pc # "idle" /\ worker'.pc # "idle") => captured(worker') = captured(worker)

\* C25: the worker's keyword sets, keyword list, penalty and case option are
\* those of the main thread when the batch was started and stay so while it
\* runs, whatever job is loaded, wherever the slider is moved and however the
\* case box is set meanwhile; every score, every comparison count and every
\* message the batch produces is that of these arguments.
C25_SettingsCaptured ==
    /\ [](C25_Produced)
    /\ [][C25_Held]_vars
    /\ [][C25_Message]_vars

\* The worker has entered the score of its first document while the job, the
\* slider and the case box all differ from what the batch was started with,
\* and the score is not one the settings of the main thread would give.
C25_Witness ==
    /\ mpc = "app"
    /\ worker.pc = "perf"
    /\ Len(worker.batch_ui_data) = 1
    /\ worker.batch_ui_data[1].cv_name = DocName(1)
    /\ worker.all_keywords # all_keywords_list
    /\ worker.mandatory_keywords # mandatory_keywords
    /\ worker.penalty_value # penalty_var
    /\ worker.case_sensitive # case_sensitive_var
    /\ Returned(worker.batch_ui_data[1].score)
           \notin scorings_with(DocName(1), mandatory_keywords, preferred_keywords,
                                case_sensitive_var, penalty_var)

\* ------------------------------------------------------------ the KMP scan ends
C26_Bounds ==
    mpc = "kmp" =>
        /\ (results.pc = "scan" /\ results.s.i < Len(text)) =>
               (0 <= results.s.j /\ results.s.j < Len(pattern))
        /\ results.s.comparisons <= 2 * Len(text)
        /\ results.pc = "returned" =>
               results.returned[1].comparisons <= 2 * Len(text)

\* C26: the scan loop of kmp_search ends, whenever it probes text[i] against
\* pattern[j] it has 0 <= j < m, and it makes at most 2*n comparisons.
C26_ScanEndsInTwiceN ==
    /\ [](C26_Bounds)
    /\ <>(mpc = "kmp" /\ results.pc = "returned")

\* A scan of four characters or more has returned two comparisons short of
\* 2*n, after falling back along the table.
C26_Witness ==
    /\ mpc = "kmp"
    /\ results.pc = "returned"
    /\ Len(pattern) >= 2
    /\ Len(text) >= 4
    /\ results.returned[1].comparisons >= 2 * Len(text) - 2

\* ------------------------------------------------------------ one worker
C27_OneThread ==
    /\ active_workers <= 1
    /\ (batch_thread = "alive") <=> (active_workers = 1)
    /\ (batch_thread = "alive") <=> (worker.pc # "idle")
C27_NoSecondStart ==
    (batch_thread = "alive" /\ StartBatch) =>
        /\ active_workers' = active_workers
        /\ worker' = worker
        /\ batch_thread' = batch_thread
        /\ <<analyze_button, batch_button, status_label>>'
               = <<analyze_button, batch_button, status_label>>
        /\ stored_results' = stored_results
        /\ batch_queue' = batch_queue

\* C27: at most one worker thread is alive at any time, batch_thread names
\* it exactly while it is, and a press of 'Run Batch Analysis' while it is
\* alive starts no other and changes neither the worker, nor the results, nor
\* the buttons.
C27_SingleWorker == [](C27_OneThread) /\ [][C27_NoSecondStart]_vars

\* The button was pressed while the thread was alive: the message of the
\* worker had been taken from the queue and its box closed, the worker had
\* yet to return, and the press has opened the box that tells so.
C27_Witness ==
    /\ mpc = "app"
    /\ batch_thread = "alive"
    /\ active_workers = 1
    /\ worker.pc = "exit"
    /\ batch_button = "normal"
    /\ batch_queue = <<>>
    /\ messagebox # <<>>
    /\ top_box.message = "Batch analysis is already running."

\* ------------------------------------------------------------ one message
worker_working == worker.pc \in {"start", "doc", "perf", "put"}
C28_OneAtATime ==
    /\ Len(batch_queue) <= 1
    /\ \A k \in DOMAIN batch_queue : batch_queue[k].status \in {"SUCCESS", "ERROR"}
    /\ worker_working => batch_queue = <<>>
C28_PutOnce ==
    /\ (worker_working /\ worker'.pc = "exit") =>
           /\ Len(batch_queue') = Len(batch_queue) + 1
           /\ SubSeq(batch_queue', 1, Len(batch_queue)) = batch_queue
    /\ Len(batch_queue') > Len(batch_queue) => (worker_working /\ worker'.pc = "exit")
    /\ (worker.pc # "idle" /\ worker'.pc = "idle") => worker.pc = "exit"
buttons_disabled == batch_button = "disabled" /\ analyze_button = "disabled"
buttons_enabled == batch_button = "normal" /\ analyze_button = "normal"

\* The box check_batch_queue opens for a message is open.
box_of_poll_open == open_boxes_of("check_batch_queue") # {}

\* C28 as it is stated: a started worker puts one message on the queue,
\* SUCCESS or ERROR, and no other, and does not return without; and with the
\* queue poll scheduled fairly, the two buttons disabled at the start of a
\* batch are enabled again once the message is on the queue.
C28_EnabledOncePolled ==
    /\ [](C28_OneAtATime)
    /\ [][C28_PutOnce]_vars
    /\ (batch_queue # <<>>) ~> buttons_enabled

\* C28: a started worker puts one message on the queue, SUCCESS or ERROR, and
\* no other, and does not return without; and with the queue poll scheduled
\* fairly, the two buttons disabled at the start of a batch are enabled again
\* once the message is on the queue, provided the box that shows it does not
\* stay open for ever.
C28_OneMessageThenEnabled ==
    /\ [](C28_OneAtATime)
    /\ [][C28_PutOnce]_vars
    /\ ([]<>(~box_of_poll_open)) => ((batch_queue # <<>>) ~> buttons_enabled)

\* The one message of a batch whose report could not be written has been
\* taken and its box closed: the buttons are enabled again, and the thread
\* has ended.
C28_Witness ==
    /\ mpc = "app"
    /\ report_file.kind = "directory"
    /\ cvs_dir.exists /\ cv_files # {}
    /\ status_label = "Error during batch analysis. Ready."
    /\ messagebox = <<>>
    /\ batch_queue = <<>>
    /\ batch_thread = "dead"
    /\ buttons_enabled

\* ------------------------------------------------------------ everything matched
\* The scoring keywords of the job loaded, and of the batch running.
job_scoring_keywords == mandatory_keywords \cup preferred_keywords
batch_scoring_keywords == worker.mandatory_keywords \cup worker.preferred_keywords
\* The CV loaded, and the document the worker is to take, hold every scoring
\* keyword.
single_full_match == cv_found(job_scoring_keywords) = job_scoring_keywords
batch_full_match ==
    \A k \in batch_scoring_keywords :
        stands_in(IF worker.case_sensitive THEN extracted_text(Head(worker.unique_names))
                  ELSE lower(extracted_text(Head(worker.unique_names))),
                  k, worker.case_sensitive)
full_marks(loc) == loc.score_pref = Hundred /\ ~loc.penalised /\ loc.final_score = Hundred
C29_Single ==
    /\ analysis_complete
    /\ \A loc \in single_scorings : full_marks(loc)
    /\ score_label = Hundred
C29_Batch ==
    /\ document_scored
    /\ \A loc \in batch_scorings : full_marks(loc)

\* C29: whatever the classification, a keyword in both sets included, a
\* document in which every mandatory and every preferred keyword is matched
\* has a preferred ratio of 100, no penalty and a final score of 100, in
\* run_analysis and in the batch worker.
C29_FullMatchFullMarks ==
    /\ [][(Analysed /\ single_full_match) => C29_Single']_vars
    /\ [][(Scored /\ batch_full_match) => C29_Batch']_vars

====
